---- MODULE Spec2Model ----
(***************************************************************************)
(* PersonalScheduleBot: the conversational state machine of main.py (group *)
(* selection and elective enrollment wizards) over the per-user scratch    *)
(* store context.user_data, together with the HTTP helpers of              *)
(* ScheduleAPI.py that the handlers call.                                  *)
(*                                                                         *)
(* The bot is built without persistence and without concurrent_updates, so *)
(* every handler runs to completion before the next update is taken: one   *)
(* action of this module is one whole handler invocation.                  *)
(***************************************************************************)
EXTENDS Integers, Sequences, FiniteSets, TLC

VARIABLES
    user_data,  \* context.user_data of every chat: chat -> (key -> <<>> | <<value>>)
    ev,         \* the update handled last: chat, handler, reply sent, whether it raised
    shown,      \* per chat: the group codes whose subgroup keyboard is on screen
    elective_view,  \* per chat: user_data["elective_lessons_list"] and ["elective_lessons_dict"]
    client,     \* a ScheduleApiClient: its _session and _owns_session
    sessions,   \* the aiohttp sessions: session id -> its state and how often it was closed
    api         \* the ScheduleApiClient / models call made last, with its result

vars == <<user_data, ev, shown, elective_view, client, sessions, api>>

----------------------------------------------------------------------------
(* Bounds of the model *)

NumLessons == 1          \* lesson source ids are 1..NumLessons
MaxResults == 2          \* longest search result list
MaxDay == 1              \* days of week offered in EL_MANUAL_DAY payloads

Chats == {"c1"}
Texts == {"bek-121", "pi-122"}     \* text messages: group codes / search strings
LessonIds == 1..NumLessons
LessonTypes == {"lecture"}
Subgroups == {-1, 1, 2}
Days == 1..MaxDay
\* subgroup lists the backend may return for a group or a lesson type
SubgroupLists == {<<>>, <<-1>>, <<-1, 1>>, <<2, -1, 1>>, <<1, 2>>}

----------------------------------------------------------------------------
(* Keys of context.user_data, main.py:51-61 and the two literal keys *)

EXPECTING_MANUAL_GROUP == "expecting_manual_group"
EXPECTING_ELECTIVE_NAME == "expecting_elective_name"
TEMP_ELECTIVE_LESSON_ID == "temp_elective_lesson_id"
TEMP_ELECTIVE_ADD_METHOD == "temp_elective_add_method"
TEMP_ELECTIVE_LESSON_TYPE == "temp_elective_lesson_type"
TEMP_ELECTIVE_WEEK == "temp_elective_week"
TEMP_ELECTIVE_DAY == "temp_elective_day"
TEMP_GROUP_CODE == "temp_group_code"
TEMP_GROUP_ACTION == "temp_group_action"
TEMP_ELECTIVE_LESSONS == "temp_elective_lessons"
TEMP_ELECTIVE_LESSON_TYPES == "temp_elective_lesson_types"

ElectiveKeys == {EXPECTING_ELECTIVE_NAME, TEMP_ELECTIVE_LESSON_ID, TEMP_ELECTIVE_ADD_METHOD,
                 TEMP_ELECTIVE_LESSON_TYPE, TEMP_ELECTIVE_WEEK, TEMP_ELECTIVE_DAY,
                 TEMP_ELECTIVE_LESSONS, TEMP_ELECTIVE_LESSON_TYPES}
GroupKeys == {EXPECTING_MANUAL_GROUP, TEMP_GROUP_CODE, TEMP_GROUP_ACTION}
WizardKeys == ElectiveKeys \cup GroupKeys

\* a dict entry is <<>> when the key is absent and <<v>> when it maps to v
Absent == <<>>
EmptyStore == [k \in WizardKeys |-> Absent]

DictSet(ud, k, v) == [ud EXCEPT ![k] = <<v>>]
DictPop(ud, k) == [ud EXCEPT ![k] = Absent]
\* python truthiness of user_data.get(k): of a flag slot, and of a string slot
Truthy(ud, k) == ud[k] = <<TRUE>>
TruthyStr(ud, k) == ud[k] # Absent /\ ud[k] # <<"">>

RECURSIVE PopAll(_, _)
PopAll(ud, ks) ==
    IF ks = <<>> THEN ud ELSE PopAll(DictPop(ud, Head(ks)), Tail(ks))

----------------------------------------------------------------------------
(* Sequence helpers: list comprehensions and sorted() *)

RECURSIVE FilterNotAll(_)
\* [sg for sg in subgroups if sg != -1]
FilterNotAll(s) ==
    IF s = <<>> THEN <<>>
    ELSE IF Head(s) # -1 THEN <<Head(s)>> \o FilterNotAll(Tail(s))
    ELSE FilterNotAll(Tail(s))

RECURSIVE Insert(_, _)
Insert(x, s) ==
    IF s = <<>> THEN <<x>>
    ELSE IF x <= Head(s) THEN <<x>> \o s
    ELSE <<Head(s)>> \o Insert(x, Tail(s))

RECURSIVE Sorted(_)
Sorted(s) == IF s = <<>> THEN <<>> ELSE Insert(Head(s), Sorted(Tail(s)))

SeqsUpTo(S, n) == UNION {[1..k -> S] : k \in 0..n}

----------------------------------------------------------------------------
(* HTTP responses.  status 0 stands for a transport failure: the httpx call *)
(* raised instead of returning a response (timeout, connection refused).    *)

NotJson == [kind |-> "invalid", val |-> <<>>]
JsonObject == [kind |-> "object", val |-> <<>>]
JsonBool(b) == [kind |-> "bool", val |-> <<b>>]
JsonList(s) == [kind |-> "list", val |-> s]

Resp(st, b) == [status |-> st, body |-> b]
Transport == Resp(0, NotJson)

\* outcome of an API helper: it raised exc, or it returned val
Raise(e) == [exc |-> e, val |-> <<>>]
Return(v) == [exc |-> "", val |-> v]

\* result.json()
Json(resp) == IF resp.body.kind = "invalid" THEN Raise("JSONDecodeError") ELSE Return(resp.body)

\* a lesson dict of GET /elective/lessons
LessonItems == [id : LessonIds, title : {"math"}, type : LessonTypes]

\* ElectiveLesson.__init__: the attributes an instance has are those it assigns
ElectiveLesson(data) == [id |-> data.id, title |-> data.title, lesson_type |-> data.type]

\* ElectiveLessonDay.__init__
ElectiveLessonDay(data) == [id |-> 1, week_number |-> 0, day_of_week |-> 1]

\* ElectiveSubgroups.__init__
ElectiveSubgroups(data) == [lesson_source_id |-> 1, possible_subgroups |-> data]

\* obj.name on a __slots__ class: <<value>>, or <<>> for AttributeError
GetAttr(obj, name) == IF name \in DOMAIN obj THEN <<obj[name]>> ELSE <<>>

user_exists(resp) ==
    IF resp.status = 0 THEN Raise("TransportError")
    ELSE IF Json(resp).exc # "" THEN Json(resp)
    ELSE IF resp.body.kind = "bool" THEN Return(resp.body.val[1])
    ELSE Return(TRUE)      \* any other JSON value is returned as is; a dict is truthy

user_subgroups(resp) ==
    IF resp.status = 0 THEN Raise("TransportError")
    ELSE IF Json(resp).exc # "" THEN Json(resp)
    ELSE Return(resp.body.val)

create_user(resp) ==
    IF resp.status = 0 THEN Raise("TransportError")
    ELSE IF resp.status = 201 THEN Return(0)
    ELSE IF resp.status = 404 THEN Return(1)
    ELSE Return(-1)

change_user_group(resp) ==
    IF resp.status = 0 THEN Raise("TransportError")
    ELSE IF resp.status = 200 THEN Return(0)
    ELSE IF resp.status = 404 THEN Return(1)
    ELSE Return(-1)

get_possible_days(resp) ==
    IF resp.status = 0 THEN Raise("TransportError")
    ELSE IF resp.status = 404 THEN Raise("KeyError")
    ELSE IF resp.status = 400 THEN Raise("ValueError")
    ELSE IF Json(resp).exc # "" THEN Json(resp)
    ELSE IF resp.body.kind # "object" THEN Raise("TypeError")
    ELSE Return(ElectiveLessonDay(resp.body.val))

get_possible_lessons(resp) ==
    IF resp.status = 0 THEN Raise("TransportError")
    ELSE IF resp.status = 400 THEN Raise("ValueError")
    ELSE IF Json(resp).exc # "" THEN Json(resp)
    ELSE IF resp.body.kind # "list" THEN Raise("TypeError")
    ELSE Return([i \in 1..Len(resp.body.val) |-> ElectiveLesson(resp.body.val[i])])

get_possible_subgroups(resp) ==
    IF resp.status = 0 THEN Raise("TransportError")
    ELSE IF resp.status = 404 THEN Raise("KeyError")
    ELSE IF resp.status = 400 THEN Raise("ValueError")
    ELSE IF Json(resp).exc # "" THEN Json(resp)
    ELSE IF resp.body.kind # "list" THEN Raise("TypeError")
    ELSE Return(ElectiveSubgroups(resp.body.val))

create_user_elective_source(resp) ==
    IF resp.status = 0 THEN Raise("TransportError") ELSE Return(resp.status = 201)

create_user_elective_entry(resp) ==
    IF resp.status = 0 THEN Raise("TransportError") ELSE Return(resp.status = 201)

(* What the backend may answer to each endpoint: one response for each way *)
(* the helper and its caller can go                                       *)
ExistsResponses == {Transport, Resp(200, JsonBool(TRUE)), Resp(200, JsonBool(FALSE))}
GroupUpdateResponses == {Transport, Resp(200, NotJson), Resp(201, NotJson), Resp(404, NotJson)}
GroupSubgroupsResponses == {Transport} \cup {Resp(200, JsonList(s)) : s \in SubgroupLists}
LessonsResponses == {Transport, Resp(400, NotJson), Resp(404, NotJson),
                     Resp(404, JsonObject), Resp(404, JsonList(<<>>)), Resp(500, NotJson)}
                    \cup {Resp(200, JsonList(s)) : s \in SeqsUpTo(LessonItems, MaxResults)}
SubgroupsResponses == {Transport, Resp(404, NotJson)}
                      \cup {Resp(200, JsonList(s)) : s \in SubgroupLists}
DaysResponses == {Transport, Resp(404, NotJson), Resp(200, JsonObject)}
ElectiveCreateResponses == {Transport, Resp(201, NotJson), Resp(500, NotJson)}

----------------------------------------------------------------------------
(* What one handler invocation produces *)

\* a recorded API call: what was called, whether it reads or writes, the status of
\* the response, and for the two group updates the group code and subgroup sent
\* ("" and 0 for every other call)
Call(op, kind, resp, group, sub) ==
    [op |-> op, kind |-> kind, status |-> resp.status, group |-> group, sub |-> sub]

\* an inline button: callback_data is action|id|arg|n with the unused parts left out
Button(action, id, arg, n) == [action |-> action, id |-> id, arg |-> arg, n |-> n]

\* the handler returned after sending msg (with keyboard kb)
Done(ud, cs, msg, kb) == [ud |-> ud, calls |-> cs, msg |-> msg, kb |-> kb, raised |-> FALSE]
\* the handler was left by an exception nothing caught
Raised(ud, cs) == [ud |-> ud, calls |-> cs, msg |-> "", kb |-> <<>>, raised |-> TRUE]

----------------------------------------------------------------------------
(* Group selection wizard, main.py:111-232 *)

\* ask_for_group (also the body of change_group in a private chat)
ask_for_group(ud) ==
    {Done(DictSet(ud, EXPECTING_MANUAL_GROUP, TRUE), <<>>, "enter_group_code", <<>>)}

change_group(ud, private) ==
    IF ~private THEN {Done(ud, <<>>, "private_only", <<>>)}
    ELSE ask_for_group(ud)

\* a button of the subgroup keyboard: its label and GROUP_SUBGROUP|<tg_id>|<sg>
GroupButton(label, sg) ==
    [action |-> "GROUP_SUBGROUP", id |-> 0, arg |-> "", n |-> sg, label |-> label]

\* the subgroup keyboard with the buttons in the order the backend listed the subgroups
GroupKeyboard_unsorted(available) ==
    <<GroupButton(<<"all">>, -1)>>
    \o [i \in 1..Len(available) |-> GroupButton(<<"subgroup", available[i]>>, available[i])]

\* the subgroup keyboard of handle_group_change
GroupKeyboard(available) ==
    <<GroupButton(<<"all">>, -1)>>
    \o [i \in 1..Len(available) |->
          GroupButton(<<"subgroup", Sorted(available)[i]>>, Sorted(available)[i])]

GroupConfirmMsg(action) == IF action = "create" THEN "group_set" ELSE "group_changed"

PopGroupTemp(ud) == DictPop(DictPop(ud, TEMP_GROUP_CODE), TEMP_GROUP_ACTION)

\* the part of handle_group_change after a successful initial update, when the
\* backend answers GET /group/subgroups with r2
GroupChangeSubgroupsOn(ud1, cs, group_code, action, r2) ==
    LET c2 == cs \o <<Call("user_subgroups", "read", r2, "", 0)>>
        sg == user_subgroups(r2)
    IN  IF sg.exc # ""
        THEN Done(PopGroupTemp(ud1), c2, GroupConfirmMsg(action), <<>>)
        ELSE IF FilterNotAll(sg.val) # <<>>
        THEN Done(ud1, c2, "choose_subgroup", GroupKeyboard(FilterNotAll(sg.val)))
        ELSE Done(PopGroupTemp(ud1), c2, GroupConfirmMsg(action), <<>>)

GroupChangeSubgroups(ud1, cs, group_code, action) ==
    { GroupChangeSubgroupsOn(ud1, cs, group_code, action, r2) : r2 \in GroupSubgroupsResponses }

\* handle_group_change with the failure branches leaving the temp slots in place
handle_group_change_keep(ud, group_code, action) ==
    LET ud1 == DictSet(DictSet(ud, TEMP_GROUP_CODE, group_code), TEMP_GROUP_ACTION, action)
    IN  UNION {
          LET result == IF action = "create" THEN create_user(r1) ELSE change_user_group(r1)
              cs == <<Call(IF action = "create" THEN "create_user" ELSE "change_user_group",
                           "write", r1, group_code, -1)>>
          IN  IF result.exc # "" THEN {Raised(ud1, cs)}
              ELSE IF result.val = 1 THEN {Done(ud1, cs, "wrong_group_name", <<>>)}
              ELSE IF result.val # 0 THEN {Done(ud1, cs, "group_update_failed", <<>>)}
              ELSE GroupChangeSubgroups(ud1, cs, group_code, action)
          : r1 \in GroupUpdateResponses }

handle_group_change(ud, group_code, action) ==
    LET ud1 == DictSet(DictSet(ud, TEMP_GROUP_CODE, group_code), TEMP_GROUP_ACTION, action)
    IN  UNION {
          LET result == IF action = "create" THEN create_user(r1) ELSE change_user_group(r1)
              cs == <<Call(IF action = "create" THEN "create_user" ELSE "change_user_group",
                           "write", r1, group_code, -1)>>
          IN  IF result.exc # "" THEN {Raised(ud1, cs)}
              ELSE IF result.val = 1 THEN {Done(PopGroupTemp(ud1), cs, "wrong_group_name", <<>>)}
              ELSE IF result.val # 0 THEN {Done(PopGroupTemp(ud1), cs, "group_update_failed", <<>>)}
              ELSE GroupChangeSubgroups(ud1, cs, group_code, action)
          : r1 \in GroupUpdateResponses }

handle_group_subgroup_selected(ud, subgroup) ==
    IF ~TruthyStr(ud, TEMP_GROUP_CODE) \/ ~TruthyStr(ud, TEMP_GROUP_ACTION)
    THEN {Done(ud, <<>>, "group_info_not_found", <<>>)}
    ELSE LET group_code == ud[TEMP_GROUP_CODE][1]
             action == ud[TEMP_GROUP_ACTION][1]
         IN { LET result == IF action = "create" THEN create_user(r) ELSE change_user_group(r)
                  cs == <<Call(IF action = "create" THEN "create_user" ELSE "change_user_group",
                           "write", r, group_code, subgroup)>>
              IN  IF result.exc # "" THEN Raised(ud, cs)
                  ELSE IF result.val = 0
                  THEN Done(PopGroupTemp(ud), cs, "subgroup_set", <<>>)
                  ELSE Done(PopGroupTemp(ud), cs, "subgroup_failed", <<>>)
              : r \in GroupUpdateResponses }

----------------------------------------------------------------------------
(* Elective enrollment wizard, main.py:417-678 *)

elective_add_command(ud, private) ==
    IF ~private THEN {Done(ud, <<>>, "private_only", <<>>)}
    ELSE { LET cs == <<Call("user_exists", "read", r, "", 0)>>
               ex == user_exists(r)
           IN  IF ex.exc # "" THEN Raised(ud, cs)
               ELSE IF ~ex.val THEN Done(ud, cs, "no_group_yet", <<>>)
               ELSE Done(DictSet(ud, EXPECTING_ELECTIVE_NAME, TRUE), cs, "enter_lesson_name", <<>>)
           : r \in ExistsResponses }

\* the keys of the dict comprehension {lesson.source_id: lesson for lesson in results}
\* and of the buttons: <<>> when the attribute access raises AttributeError
LessonKeys(results) ==
    IF \E i \in 1..Len(results) : GetAttr(results[i], "source_id") = <<>>
    THEN <<>>
    ELSE <<[i \in 1..Len(results) |-> GetAttr(results[i], "source_id")[1]]>>

\* the dict built at main.py:457: later items overwrite earlier ones with the same key
LessonsDict(results, keys) ==
    [k \in {keys[i] : i \in 1..Len(keys)} |->
        results[CHOOSE i \in 1..Len(keys) :
                    keys[i] = k /\ \A j \in 1..Len(keys) : keys[j] = k => j <= i]]

\* handle_elective_partial_name_input with the ValueError branch forgetting to set
\* expecting_elective_name again
handle_elective_partial_name_input_no_rearm(ud, partial, r) ==
    IF ~Truthy(ud, EXPECTING_ELECTIVE_NAME) THEN Done(ud, <<>>, "", <<>>)
    ELSE LET ud1 == DictPop(ud, EXPECTING_ELECTIVE_NAME)
             cs == <<Call("get_possible_lessons", "read", r, "", 0)>>
             results == get_possible_lessons(r)
         IN  IF results.exc = "ValueError"
             THEN Done(ud1, cs, "more_precise_name", <<>>)
             ELSE IF results.exc # ""
             THEN Done(ud1, cs, "api_error", <<>>)
             ELSE IF results.val = <<>>
             THEN Done(DictSet(ud1, EXPECTING_ELECTIVE_NAME, TRUE), cs, "nothing_found", <<>>)
             ELSE IF LessonKeys(results.val) = <<>>
             THEN Raised(ud1, cs)
             ELSE LET keys == LessonKeys(results.val)[1]
                  IN Done(DictSet(ud1, TEMP_ELECTIVE_LESSONS, LessonsDict(results.val, keys)),
                          cs, "choose_lesson",
                          [i \in 1..Len(keys) |-> Button("EL_LESSON", keys[i], "", 0)])

\* the handler when the backend answers the search with response r
handle_elective_partial_name_input(ud, partial, r) ==
    IF ~Truthy(ud, EXPECTING_ELECTIVE_NAME) THEN Done(ud, <<>>, "", <<>>)
    ELSE LET ud1 == DictPop(ud, EXPECTING_ELECTIVE_NAME)
             cs == <<Call("get_possible_lessons", "read", r, "", 0)>>
             results == get_possible_lessons(r)
         IN  IF results.exc = "ValueError"
             THEN Done(DictSet(ud1, EXPECTING_ELECTIVE_NAME, TRUE), cs, "more_precise_name", <<>>)
             ELSE IF results.exc # ""
             THEN Done(ud1, cs, "api_error", <<>>)
             ELSE IF results.val = <<>>
             THEN Done(DictSet(ud1, EXPECTING_ELECTIVE_NAME, TRUE), cs, "nothing_found", <<>>)
             ELSE IF LessonKeys(results.val) = <<>>
             THEN Raised(ud1, cs)
             ELSE LET keys == LessonKeys(results.val)[1]
                  IN Done(DictSet(ud1, TEMP_ELECTIVE_LESSONS, LessonsDict(results.val, keys)),
                          cs, "choose_lesson",
                          [i \in 1..Len(keys) |-> Button("EL_LESSON", keys[i], "", 0)])

\* every way the handler can go
ElectiveNameInput(ud, partial) ==
    {handle_elective_partial_name_input(ud, partial, r) : r \in LessonsResponses}

RECURSIVE SubgroupProbe(_, _)
\* the loop of main.py:483-490: one subgroup fetch per type until a type has a
\* subgroup other than -1; a fetch that raises counts as none
SubgroupProbe(lesson_id, types) ==
    IF types = <<>> THEN {[calls |-> <<>>, has_subgroup |-> FALSE]}
    ELSE UNION {
           LET c == Call("get_possible_subgroups", "read", r, "", 0)
               sg == get_possible_subgroups(r)
           IN  IF sg.exc = "" /\ \E i \in 1..Len(sg.val.possible_subgroups) :
                                      sg.val.possible_subgroups[i] # -1
               THEN {[calls |-> <<c>>, has_subgroup |-> TRUE]}
               ELSE {[calls |-> <<c>> \o p.calls, has_subgroup |-> p.has_subgroup]
                     : p \in SubgroupProbe(lesson_id, Tail(types))}
           : r \in SubgroupsResponses }

MethodKeyboard(lesson_id, has_subgroup) ==
    IF has_subgroup
    THEN <<Button("EL_METHOD", lesson_id, "subgroup", 0), Button("EL_METHOD", lesson_id, "manual", 0)>>
    ELSE <<Button("EL_METHOD", lesson_id, "manual", 0)>>

handle_elective_lesson_selected(ud, lesson_id) ==
    LET ud1 == DictSet(ud, TEMP_ELECTIVE_LESSON_ID, lesson_id)
        lessons == IF ud1[TEMP_ELECTIVE_LESSONS] = Absent THEN <<>>
                   ELSE ud1[TEMP_ELECTIVE_LESSONS][1]
    IN  IF lesson_id \notin DOMAIN lessons
        THEN {Done(ud1, <<>>, "lesson_info_not_found", <<>>)}
        ELSE IF GetAttr(lessons[lesson_id], "types") = <<>>
        THEN {Raised(ud1, <<>>)}
        ELSE LET types == GetAttr(lessons[lesson_id], "types")[1]
                 ud2 == DictSet(ud1, TEMP_ELECTIVE_LESSON_TYPES, types)
             IN { Done(ud2, p.calls,
                       IF p.has_subgroup THEN "how_to_add" ELSE "manual_only",
                       MethodKeyboard(lesson_id, p.has_subgroup))
                  : p \in SubgroupProbe(lesson_id, types) }

\* handle_elective_subgroup_flow_start / handle_elective_manual_flow_start
TypeFlowStart(ud, lesson_id, action) ==
    LET lesson_types == IF ud[TEMP_ELECTIVE_LESSON_TYPES] = Absent THEN <<>>
                        ELSE ud[TEMP_ELECTIVE_LESSON_TYPES][1]
    IN  IF lesson_types = <<>>
        THEN {Done(ud, <<>>, "no_lesson_types", <<>>)}
        ELSE {Done(ud, <<>>, "choose_type",
                   [i \in 1..Len(lesson_types) |-> Button(action, lesson_id, lesson_types[i], 0)])}

handle_elective_subgroup_flow_start(ud, lesson_id) == TypeFlowStart(ud, lesson_id, "EL_SUBGROUP_TYPE")

handle_elective_manual_flow_start(ud, lesson_id) == TypeFlowStart(ud, lesson_id, "EL_MANUAL_TYPE")

handle_elective_method_selected(ud, lesson_id, method) ==
    LET ud1 == DictSet(ud, TEMP_ELECTIVE_ADD_METHOD, method)
    IN  IF method = "subgroup"
        THEN handle_elective_subgroup_flow_start(ud1, lesson_id)
        ELSE handle_elective_manual_flow_start(ud1, lesson_id)

handle_elective_subgroup_type_selected(ud, lesson_id, lesson_type) ==
    { LET cs == <<Call("get_possible_subgroups", "read", r, "", 0)>>
          sg == get_possible_subgroups(r)
      IN  IF sg.exc # "" THEN Done(ud, cs, "no_streams", <<>>)
          ELSE LET subgroups == FilterNotAll(sg.val.possible_subgroups)
               IN IF subgroups = <<>> THEN Done(ud, cs, "no_streams", <<>>)
                  ELSE Done(ud, cs, "choose_stream",
                            [i \in 1..Len(subgroups) |->
                               Button("EL_SUBGROUP", lesson_id, lesson_type, Sorted(subgroups)[i])])
      : r \in SubgroupsResponses }

ElectiveAddMsg(ok) ==
    IF ok.exc # "" THEN "add_error" ELSE IF ok.val THEN "added" ELSE "add_failed"

\* handle_elective_subgroup_selected fetching the subgroups once more before it enrolls
handle_elective_subgroup_selected_recheck(ud, lesson_id, lesson_type, subgroup) ==
    { Done(PopAll(ud, <<TEMP_ELECTIVE_LESSON_ID, TEMP_ELECTIVE_ADD_METHOD>>),
           <<Call("get_possible_subgroups", "read", r, "", 0),
             Call("create_user_elective_source", "write", r, "", 0)>>,
           ElectiveAddMsg(create_user_elective_source(r)), <<>>)
      : r \in ElectiveCreateResponses }

handle_elective_subgroup_selected(ud, lesson_id, lesson_type, subgroup) ==
    { Done(PopAll(ud, <<TEMP_ELECTIVE_LESSON_ID, TEMP_ELECTIVE_ADD_METHOD>>),
           <<Call("create_user_elective_source", "write", r, "", 0)>>,
           ElectiveAddMsg(create_user_elective_source(r)), <<>>)
      : r \in ElectiveCreateResponses }

\* the three manual steps fetch the days and read days_obj.lesson_days inside the try
ManualDaysStep(ud1, lesson_id, lesson_type, failed_msg) ==
    { LET cs == <<Call("get_possible_days", "read", r, "", 0)>>
          days_obj == get_possible_days(r)
      IN  IF days_obj.exc # "" THEN Done(ud1, cs, failed_msg, <<>>)
          ELSE IF GetAttr(days_obj.val, "lesson_days") = <<>> THEN Done(ud1, cs, failed_msg, <<>>)
          ELSE Done(ud1, cs, "choose_from_days", <<>>)
      : r \in DaysResponses }

handle_elective_manual_type_selected(ud, lesson_id, lesson_type) ==
    ManualDaysStep(DictSet(ud, TEMP_ELECTIVE_LESSON_TYPE, lesson_type),
                   lesson_id, lesson_type, "weeks_failed")

handle_elective_manual_week_selected(ud, lesson_id, lesson_type, week) ==
    ManualDaysStep(DictSet(ud, TEMP_ELECTIVE_WEEK, week), lesson_id, lesson_type, "days_failed")

handle_elective_manual_day_selected(ud, lesson_id, lesson_type, week, day) ==
    ManualDaysStep(DictSet(DictSet(ud, TEMP_ELECTIVE_WEEK, week), TEMP_ELECTIVE_DAY, day),
                   lesson_id, lesson_type, "times_failed")

handle_elective_manual_time_selected(ud, lesson_id, lesson_type, week, day, entry_id) ==
    { Done(PopAll(ud, <<TEMP_ELECTIVE_LESSON_ID, TEMP_ELECTIVE_ADD_METHOD,
                        TEMP_ELECTIVE_LESSON_TYPE, TEMP_ELECTIVE_WEEK, TEMP_ELECTIVE_DAY,
                        TEMP_ELECTIVE_LESSON_TYPES, TEMP_ELECTIVE_LESSONS>>),
           <<Call("create_user_elective_entry", "write", r, "", 0)>>,
           ElectiveAddMsg(create_user_elective_entry(r)), <<>>)
      : r \in ElectiveCreateResponses }

----------------------------------------------------------------------------
(* Text messages, main.py:126-145 *)

manual_group_message_handler(ud, private, text) ==
    IF ~private THEN {Done(ud, <<>>, "", <<>>)}
    ELSE IF Truthy(ud, EXPECTING_MANUAL_GROUP)
    THEN UNION {
           LET c0 == <<Call("user_exists", "read", r0, "", 0)>>
               ex == user_exists(r0)
           IN  IF ex.exc # "" THEN {Raised(ud, c0)}
               ELSE { IF h.raised THEN [h EXCEPT !.calls = c0 \o h.calls]
                      ELSE [h EXCEPT !.calls = c0 \o h.calls,
                                     !.ud = DictPop(h.ud, EXPECTING_MANUAL_GROUP)]
                      : h \in handle_group_change(ud, text, IF ex.val THEN "change" ELSE "create") }
           : r0 \in ExistsResponses }
    ELSE IF Truthy(ud, EXPECTING_ELECTIVE_NAME)
    THEN ElectiveNameInput(ud, text)
    ELSE {Done(ud, <<>>, "", <<>>)}

----------------------------------------------------------------------------
(* The typed client, schedule_api.py.  A response text is described by what  *)
(* the code looks at: what json.loads makes of it, which of the two date     *)
(* keys it holds (as keys of an object, elements of a list, or substrings    *)
(* of a string), whether it contains "Too many elements", whether it is      *)
(* empty and whether whitespace surrounds it.                                *)

DateKeys == {"startDate", "endDate"}

BodyTexts ==
    {[json |-> "invalid", has |-> {}, marker |-> m, empty |-> FALSE, pad |-> p]
       : m \in BOOLEAN, p \in BOOLEAN}
    \cup {[json |-> "invalid", has |-> {}, marker |-> FALSE, empty |-> TRUE, pad |-> p]
            : p \in BOOLEAN}
    \cup {[json |-> k, has |-> h, marker |-> m, empty |-> FALSE, pad |-> p]
            : k \in {"object", "list", "string"}, h \in SUBSET DateKeys,
              m \in BOOLEAN, p \in BOOLEAN}
    \cup {[json |-> k, has |-> {}, marker |-> FALSE, empty |-> FALSE, pad |-> p]
            : k \in {"dicts", "scalar"}, p \in BOOLEAN}

EmptyText == [json |-> "invalid", has |-> {}, marker |-> FALSE, empty |-> TRUE, pad |-> FALSE]

Statuses == {100, 200, 204, 299, 300, 400, 401, 404, 499, 500, 503, 599}

\* text.strip()
strip(text) == [text EXCEPT !.pad = FALSE]

\* the exception classes of schedule_api.py:24-62
TaxonomyKinds ==
    {"ScheduleApiError", "NotFoundError", "BadRequestError", "OutOfRangeDateError",
     "TooManyElementsError", "ServerError"}

\* ScheduleApiError.__init__: the attributes status_code and body of the instance
ScheduleApiError(kind, status_code, body) ==
    [exc |-> kind, val |-> [status_code |-> status_code, body |-> body]]

\* OutOfRangeDateError.__init__: super().__init__(400, ..., out_of_range_result)
OutOfRangeDateError(out_of_range_result) ==
    ScheduleApiError("OutOfRangeDateError", 400, [kind |-> "OutOfRangeResult", of |-> out_of_range_result])

\* TooManyElementsError.__init__: super().__init__(400, ...), body defaults to None
TooManyElementsError == ScheduleApiError("TooManyElementsError", 400, [kind |-> "None", of |-> <<>>])

\* the try block of _raise_for_status: json.loads, the two `in` tests, from_dict.
\* "pass" when the block ends without raising or with ValueError / KeyError.
OutOfRangeProbe(body) ==
    IF body.json = "invalid" THEN "pass"                 \* ValueError, caught
    ELSE IF body.json = "scalar" THEN "TypeError"        \* `in` on a number, bool or None
    ELSE IF ~(DateKeys \subseteq body.has) THEN "pass"
    ELSE IF body.json = "object" THEN "OutOfRangeDateError"
    ELSE "TypeError"                                     \* data["startDate"] on a list or str

_raise_for_status(status, text) ==
    IF 200 <= status /\ status < 300 THEN Return(<<>>)
    ELSE LET body == strip(text)
         IN  IF status = 404 THEN ScheduleApiError("NotFoundError", 404, [kind |-> "text", of |-> body])
             ELSE IF status = 400
             THEN IF OutOfRangeProbe(body) = "OutOfRangeDateError"
                  THEN OutOfRangeDateError(body.has)
                  ELSE IF OutOfRangeProbe(body) = "TypeError" THEN Raise("TypeError")
                  ELSE IF body.marker THEN TooManyElementsError
                  ELSE ScheduleApiError("BadRequestError", 400, [kind |-> "text", of |-> body])
             ELSE IF status >= 500 THEN ScheduleApiError("ServerError", status, [kind |-> "text", of |-> body])
             ELSE ScheduleApiError("ScheduleApiError", status, [kind |-> "text", of |-> body])

\* _parse_json: the parsed value, or the text itself when it is not JSON
_parse_json(text) ==
    IF text.json = "invalid" THEN [kind |-> "str", of |-> text]
    ELSE [kind |-> text.json, of |-> text]

(* The session of the client.  Session 0 is the one handed to the constructor, *)
(* sessions 1..MaxSessions are the ones the client creates.                    *)
MaxSessions == 2

SessionIds == 0..MaxSessions

NoSessions == [i \in SessionIds |-> [state |-> "unborn", closes |-> 0]]

\* ScheduleApiClient.__init__ without and with a session
OwnClient == [session |-> Absent, owns_session |-> TRUE]
SuppliedClient == [session |-> <<0>>, owns_session |-> FALSE]

\* the session aiohttp.ClientSession(...) returns: the next one not yet created
NewSession(ss) == CHOOSE i \in 1..MaxSessions :
                    ss[i].state = "unborn" /\ \A j \in 1..(i - 1) : ss[j].state # "unborn"

Created(cl, ss) ==
    [client |-> [cl EXCEPT !.session = <<NewSession(ss)>>],
     sessions |-> [ss EXCEPT ![NewSession(ss)].state = "open"]]

\* open() creating a session whenever the client owns its session
open_always(cl, ss) ==
    IF cl.owns_session THEN Created(cl, ss) ELSE [client |-> cl, sessions |-> ss]

open(cl, ss) ==
    IF cl.owns_session /\ (cl.session = Absent \/ ss[cl.session[1]].state = "closed")
    THEN Created(cl, ss)
    ELSE [client |-> cl, sessions |-> ss]

\* close() without the _owns_session test
close_any(cl, ss) ==
    IF cl.session # Absent /\ ss[cl.session[1]].state # "closed"
    THEN [client |-> cl,
          sessions |-> [ss EXCEPT ![cl.session[1]] = [state |-> "closed", closes |-> @.closes + 1]]]
    ELSE [client |-> cl, sessions |-> ss]

close(cl, ss) ==
    IF cl.owns_session /\ cl.session # Absent /\ ss[cl.session[1]].state # "closed"
    THEN [client |-> cl,
          sessions |-> [ss EXCEPT ![cl.session[1]] = [state |-> "closed", closes |-> @.closes + 1]]]
    ELSE [client |-> cl, sessions |-> ss]

\* what the network does with a request: it fails, or a response arrives
Wire ==
    {[fail |-> f, status |-> 0, text |-> EmptyText]
       : f \in {"TimeoutError", "ClientConnectorError"}}
    \cup {[fail |-> "", status |-> st, text |-> t]
            : st \in {200, 400, 404, 500},
              t \in {b \in BodyTexts : ~b.pad /\ ~b.marker /\ b.has \in {{}, DateKeys}}}

\* _request without the assertion: the call on a session that is None
_request_unchecked(cl, ss, w) ==
    IF cl.session = Absent THEN Raise("AttributeError")
    ELSE IF ss[cl.session[1]].state = "closed" THEN Raise("RuntimeError")
    ELSE IF w.fail # "" THEN Raise(w.fail)
    ELSE Return([status |-> w.status, text |-> w.text])

\* _request: (status, text), or the exception that leaves it
_request(cl, ss, w) ==
    IF cl.session = Absent THEN Raise("AssertionError")
    ELSE IF ss[cl.session[1]].state = "closed" THEN Raise("RuntimeError")
    ELSE IF w.fail # "" THEN Raise(w.fail)
    ELSE Return([status |-> w.status, text |-> w.text])

\* search_elective_lessons: descriptors for a non-empty list of objects, else the
\* parsed data as it is
search_elective_lessons(cl, ss, w) ==
    LET rq == _request(cl, ss, w)
    IN  IF rq.exc # "" THEN rq
        ELSE IF _raise_for_status(rq.val.status, rq.val.text).exc # ""
        THEN _raise_for_status(rq.val.status, rq.val.text)
        ELSE LET data == _parse_json(rq.val.text)
             IN IF data.kind = "dicts" THEN Return([kind |-> "LessonDescriptors", of |-> data.of])
                ELSE Return(data)

(* models.py: SelectedElectiveLessonInputOutput *)
None == "None"

SelectedElectives ==
    [id : {1, 2}, lesson_name : {"math"}, subgroup_number : {-1, 1},
     lesson_type : {None, "lecture"}]

\* to_dict writing the type under the attribute's own name
to_dict_snake(e) ==
    [id |-> e.id, lessonName |-> e.lesson_name, lesson_type |-> e.lesson_type,
     subgroupNumber |-> e.subgroup_number]

to_dict(e) ==
    [id |-> e.id, lessonName |-> e.lesson_name, lessonType |-> e.lesson_type,
     subgroupNumber |-> e.subgroup_number]

from_dict(data) ==
    IF ~({"id", "lessonName", "subgroupNumber"} \subseteq DOMAIN data) THEN Raise("KeyError")
    ELSE Return([id |-> data.id, lesson_name |-> data.lessonName,
                 subgroup_number |-> data.subgroupNumber,
                 lesson_type |-> IF "lessonType" \in DOMAIN data THEN data.lessonType
                                 ELSE None])

\* no call made yet
NoCall == [op |-> "", inp |-> <<>>, out |-> Return(<<>>)]

----------------------------------------------------------------------------
(* The state machine.  An update is a command, a text message or a button   *)
(* press.  Callback payloads are inputs: the buttons of earlier messages    *)
(* stay in the chat across wizard runs and process restarts.                *)

Init ==
    /\ user_data = [c \in Chats |-> EmptyStore]
    /\ ev = [chat |-> "c1", handler |-> "start", msg |-> "", raised |-> FALSE]
    /\ shown = [c \in Chats |-> {}]
    /\ elective_view = [c \in Chats |-> Absent]
    /\ client = OwnClient
    /\ sessions = NoSessions
    /\ api = NoCall

\* handler ran for an update of chat c with outcome h
Handled(c, handler, h) ==
    /\ user_data' = [user_data EXCEPT ![c] = h.ud]
    /\ ev' = [chat |-> c, handler |-> handler, msg |-> h.msg, raised |-> h.raised]
    /\ shown' = IF h.msg = "choose_subgroup"
                THEN [shown EXCEPT ![c] = @ \cup {h.ud[TEMP_GROUP_CODE][1]}]
                ELSE shown
    /\ UNCHANGED <<elective_view, client, sessions, api>>

ChangeGroupCommand(c) ==
    \E private \in BOOLEAN :
      \E h \in change_group(user_data[c], private) : Handled(c, "change_group", h)

ElectiveAddCommand(c) ==
    \E private \in BOOLEAN :
      \E h \in elective_add_command(user_data[c], private) :
        Handled(c, "elective_add_command", h)

TextMessage(c) ==
    \E private \in BOOLEAN, text \in Texts :
      \E h \in manual_group_message_handler(user_data[c], private, text) :
        Handled(c,
                IF ~private \/ Truthy(user_data[c], EXPECTING_MANUAL_GROUP)
                   \/ ~Truthy(user_data[c], EXPECTING_ELECTIVE_NAME)
                THEN "manual_group_message_handler"
                ELSE "handle_elective_partial_name_input",
                h)

\* callback_query_router, GROUP_SUBGROUP|<telegramId>|<subgroup>
PressGroupSubgroup(c) ==
    \E g \in shown[c], subgroup \in Subgroups :
      \E h \in handle_group_subgroup_selected(user_data[c], subgroup) :
        Handled(c, "handle_group_subgroup_selected", h)

\* EL_LESSON|<lessonId>
PressLesson(c) ==
    \E lesson_id \in LessonIds :
      \E h \in handle_elective_lesson_selected(user_data[c], lesson_id) :
        Handled(c, "handle_elective_lesson_selected", h)

\* EL_METHOD|<lessonId>|<method>
PressMethod(c) ==
    \E lesson_id \in LessonIds, method \in {"subgroup", "manual"} :
      \E h \in handle_elective_method_selected(user_data[c], lesson_id, method) :
        Handled(c, "handle_elective_method_selected", h)

\* EL_SUBGROUP_TYPE|<lessonId>|<type>
PressSubgroupType(c) ==
    \E lesson_id \in LessonIds, lesson_type \in LessonTypes :
      \E h \in handle_elective_subgroup_type_selected(user_data[c], lesson_id, lesson_type) :
        Handled(c, "handle_elective_subgroup_type_selected", h)

\* EL_SUBGROUP|<lessonId>|<type>|<subgroup>
PressSubgroup(c) ==
    \E lesson_id \in LessonIds, lesson_type \in LessonTypes, subgroup \in Subgroups \ {-1} :
      \E h \in handle_elective_subgroup_selected(user_data[c], lesson_id, lesson_type, subgroup) :
        Handled(c, "handle_elective_subgroup_selected", h)

\* EL_MANUAL_TYPE|<lessonId>|<type>
PressManualType(c) ==
    \E lesson_id \in LessonIds, lesson_type \in LessonTypes :
      \E h \in handle_elective_manual_type_selected(user_data[c], lesson_id, lesson_type) :
        Handled(c, "handle_elective_manual_type_selected", h)

\* EL_MANUAL_WEEK|<lessonId>|<type>|<week>
PressManualWeek(c) ==
    \E lesson_id \in LessonIds, lesson_type \in LessonTypes, week \in BOOLEAN :
      \E h \in handle_elective_manual_week_selected(user_data[c], lesson_id, lesson_type, week) :
        Handled(c, "handle_elective_manual_week_selected", h)

\* EL_MANUAL_DAY|<lessonId>|<type>|<week>|<day>
PressManualDay(c) ==
    \E lesson_id \in LessonIds, lesson_type \in LessonTypes, week \in BOOLEAN, day \in Days :
      \E h \in handle_elective_manual_day_selected(user_data[c], lesson_id, lesson_type, week, day) :
        Handled(c, "handle_elective_manual_day_selected", h)

\* EL_MANUAL_TIME|<lessonId>|<type>|<week>|<day>|<time>
PressManualTime(c) ==
    \E lesson_id \in LessonIds, lesson_type \in LessonTypes, week \in BOOLEAN, day \in Days :
      \E h \in handle_elective_manual_time_selected(user_data[c], lesson_id, lesson_type,
                                                    week, day, 1) :
        Handled(c, "handle_elective_manual_time_selected", h)

\* the process is restarted: user_data is not persisted, the chat history is
Restart ==
    /\ user_data' = [c \in Chats |-> EmptyStore]
    /\ ev' = [chat |-> "c1", handler |-> "start", msg |-> "", raised |-> FALSE]
    /\ elective_view' = [c \in Chats |-> Absent]
    /\ UNCHANGED <<shown, client, sessions, api>>

Next ==
    \/ \E c \in Chats : ChangeGroupCommand(c)
    \/ \E c \in Chats : ElectiveAddCommand(c)
    \/ \E c \in Chats : TextMessage(c)
    \/ \E c \in Chats : PressGroupSubgroup(c)
    \/ \E c \in Chats : PressLesson(c)
    \/ \E c \in Chats : PressMethod(c)
    \/ \E c \in Chats : PressSubgroupType(c)
    \/ \E c \in Chats : PressSubgroup(c)
    \/ \E c \in Chats : PressManualType(c)
    \/ \E c \in Chats : PressManualWeek(c)
    \/ \E c \in Chats : PressManualDay(c)
    \/ \E c \in Chats : PressManualTime(c)
    \/ Restart

Spec == Init /\ [][Next]_vars

----------------------------------------------------------------------------
(* Properties *)

NoSlots(ud, keys) == \A k \in keys : ud[k] = Absent

NumCalls(h, kind) == Cardinality({i \in 1..Len(h.calls) : h.calls[i].kind = kind})

MutationReplies == {"added", "add_failed", "add_error", "subgroup_set", "subgroup_failed"}
ElectiveMutationReplies == {"added", "add_failed", "add_error"}

\* a text message of chat c is routed to the elective name search
SearchExpected(c) ==
    /\ Truthy(user_data[c], EXPECTING_ELECTIVE_NAME)
    /\ ~Truthy(user_data[c], EXPECTING_MANUAL_GROUP)

\* C1 (as claimed): once handle_elective_subgroup_selected,
\* handle_elective_manual_time_selected or handle_group_subgroup_selected has issued
\* its mutating call and replied, the chat's store holds no wizard slot at all.
C1_TerminalLeavesNoSlots ==
    (/\ ev.handler \in {"handle_elective_subgroup_selected",
                        "handle_elective_manual_time_selected",
                        "handle_group_subgroup_selected"}
     /\ ev.msg \in MutationReplies)
    => NoSlots(user_data[ev.chat], WizardKeys)

\* C2 (as claimed): expecting_manual_group and expecting_elective_name are never both
\* set for a chat, and right after /change_group (resp. /elective_add) has started a
\* wizard no slot of the other wizard is left in the store.
C2_SingleActiveWizard ==
    /\ \A c \in Chats : ~(Truthy(user_data[c], EXPECTING_MANUAL_GROUP)
                          /\ Truthy(user_data[c], EXPECTING_ELECTIVE_NAME))
    /\ (ev.handler = "change_group" /\ ev.msg = "enter_group_code")
          => NoSlots(user_data[ev.chat], ElectiveKeys)
    /\ (ev.handler = "elective_add_command" /\ ev.msg = "enter_lesson_name")
          => NoSlots(user_data[ev.chat], GroupKeys)

\* C3 (as claimed): a step in which an EL_SUBGROUP or EL_MANUAL_TIME press issued the
\* enrollment mutation starts in a state where the chat's store holds at least one
\* elective-wizard slot.
C3_NoEnrollmentWithoutWizard ==
    [][ (/\ ev'.handler \in {"handle_elective_subgroup_selected",
                             "handle_elective_manual_time_selected"}
         /\ ev'.msg \in ElectiveMutationReplies)
        => ~NoSlots(user_data[ev'.chat], ElectiveKeys) ]_vars

\* C4 (as claimed): an EL_LESSON press whose lesson is not in the stored search
\* results is answered with the notice, issues no API call and leaves every slot of
\* the store as it was.
C4_StaleLessonPressIsNoOp ==
    \A c \in Chats, lesson_id \in LessonIds :
      \A h \in handle_elective_lesson_selected(user_data[c], lesson_id) :
        h.msg = "lesson_info_not_found" => (h.calls = <<>> /\ h.ud = user_data[c])

\* C5 (as claimed): a press of a button of the subgroup keyboard rendered for group g
\* never sends an update for a group code other than g.
C5_SubgroupAppliedToItsOwnGroup ==
    \A c \in Chats, subgroup \in Subgroups :
      \A g \in shown[c] :
        \A h \in handle_group_subgroup_selected(user_data[c], subgroup) :
          \A i \in 1..Len(h.calls) : h.calls[i].kind = "write" => h.calls[i].group = g

\* the four button handlers of the by-stream path, with every outcome each can have
LessonPressOutcomes(c) ==
    UNION {handle_elective_lesson_selected(user_data[c], lesson_id) : lesson_id \in LessonIds}
MethodPressOutcomes(c) ==
    UNION {handle_elective_method_selected(user_data[c], lesson_id, method)
           : lesson_id \in LessonIds, method \in {"subgroup", "manual"}}
TypePressOutcomes(c) ==
    UNION {handle_elective_subgroup_type_selected(user_data[c], lesson_id, lesson_type)
           : lesson_id \in LessonIds, lesson_type \in LessonTypes}
SubgroupPressOutcomes(c) ==
    UNION {handle_elective_subgroup_selected(user_data[c], lesson_id, lesson_type, subgroup)
           : lesson_id \in LessonIds, lesson_type \in LessonTypes, subgroup \in Subgroups}

\* C6 (as claimed): every button press of the elective wizard issues exactly one API
\* read and no write, except the final one (EL_SUBGROUP), which issues exactly one
\* write and no read.
C6_OneReadPerPress ==
    \A c \in Chats :
      /\ \A h \in LessonPressOutcomes(c) \cup MethodPressOutcomes(c) \cup TypePressOutcomes(c) :
           NumCalls(h, "read") = 1 /\ NumCalls(h, "write") = 0
      /\ \A h \in SubgroupPressOutcomes(c) :
           NumCalls(h, "write") = 1 /\ NumCalls(h, "read") = 0

\* the types of the lesson an EL_LESSON press names, <<>> when the lesson is not stored
StoredTypes(ud, lesson_id) ==
    IF ud[TEMP_ELECTIVE_LESSONS] = Absent THEN <<>>
    ELSE IF lesson_id \notin DOMAIN ud[TEMP_ELECTIVE_LESSONS][1] THEN <<>>
    ELSE IF GetAttr(ud[TEMP_ELECTIVE_LESSONS][1][lesson_id], "types") = <<>> THEN <<>>
    ELSE GetAttr(ud[TEMP_ELECTIVE_LESSONS][1][lesson_id], "types")[1]

\* the store with the search results main.py:457 is written to leave in it: one
\* stored lesson whose object carries the types attribute main.py:479 reads
TypeLists == {<<"lecture">>, <<"lecture", "practice">>}
ServedStores(ud) ==
    {DictSet(ud, TEMP_ELECTIVE_LESSONS,
             [k \in {lesson_id} |-> [id |-> lesson_id, title |-> "math", types |-> ts]])
     : lesson_id \in LessonIds, ts \in TypeLists}

\* C6 (amended): the type press (EL_SUBGROUP_TYPE) issues exactly one read and no
\* write; the final press (EL_SUBGROUP) issues exactly one write and no read; the
\* method press (EL_METHOD) issues no API call; the lesson press (EL_LESSON) issues no
\* write and at most one read per type of the chosen lesson, none when the lesson is
\* not in the store.  The lesson and method presses are checked on the chat's store
\* and on that store with search results in it.
C6_CallsPerPress ==
    \A c \in Chats :
      /\ \A h \in TypePressOutcomes(c) : NumCalls(h, "read") = 1 /\ NumCalls(h, "write") = 0
      /\ \A h \in SubgroupPressOutcomes(c) :
           NumCalls(h, "write") = 1 /\ NumCalls(h, "read") = 0 /\ ~h.raised
      /\ \A h \in MethodPressOutcomes(c) : h.calls = <<>>
      /\ \A ud \in {user_data[c]} \cup ServedStores(user_data[c]), lesson_id \in LessonIds :
           \A h \in handle_elective_lesson_selected(ud, lesson_id) :
             /\ NumCalls(h, "write") = 0
             /\ NumCalls(h, "read") <= Len(StoredTypes(ud, lesson_id))
             /\ StoredTypes(ud, lesson_id) = <<>> => h.calls = <<>>
             /\ \A method \in {"subgroup", "manual"} :
                  \A h2 \in handle_elective_method_selected(h.ud, lesson_id, method) :
                    h2.calls = <<>>

\* C6 witness: the final press has been handled and the enrollment was accepted
C6_Witness ==
    /\ ev.handler = "handle_elective_subgroup_selected"
    /\ ev.msg = "added"
    /\ user_data[ev.chat][TEMP_ELECTIVE_ADD_METHOD] = Absent

\* the button rows a successful search must produce for result list s
SearchServed(ud, partial, s) ==
    LET h == handle_elective_partial_name_input(ud, partial, Resp(200, JsonList(s)))
    IN  /\ ~h.raised
        /\ Len(h.kb) = Len(s)
        /\ \A i \in 1..Len(h.kb) :
             /\ h.kb[i].action = "EL_LESSON"
             /\ \A h2 \in handle_elective_lesson_selected(h.ud, h.kb[i].id) :
                  h2.msg # "lesson_info_not_found"

\* C7 (as claimed): a search under expecting_elective_name that returns 1..N lessons
\* completes without raising, renders one EL_LESSON button per result and stores the
\* results so that pressing any of the buttons finds its lesson.
C7_SearchAdvancesToLessonChoice ==
    \A c \in Chats, text \in Texts :
      SearchExpected(c) =>
        \A s \in SeqsUpTo(LessonItems, MaxResults) \ {<<>>} :
          SearchServed(user_data[c], text, s)

\* the state a rejected or failed search must leave: the prompt is armed again and
\* nothing of a lesson choice was rendered or stored
Reprompted(ud, h) ==
    /\ ~h.raised
    /\ Truthy(h.ud, EXPECTING_ELECTIVE_NAME)
    /\ ~Truthy(h.ud, EXPECTING_MANUAL_GROUP)
    /\ h.kb = <<>>
    /\ h.ud[TEMP_ELECTIVE_LESSONS] = ud[TEMP_ELECTIVE_LESSONS]
    /\ \A text2 \in Texts :
         \A h2 \in manual_group_message_handler(h.ud, TRUE, text2) :
           h2.calls # <<>> /\ h2.calls[1].op = "get_possible_lessons"

\* C8: a search the backend rejects with 400 (too many elements) is answered with the
\* ask-for-a-more-precise-name reply, sets expecting_elective_name again, renders no
\* keyboard and does not write temp_elective_lessons, so the next text message of the
\* chat is sent to the search again.
C8_TooManyReprompts ==
    \A c \in Chats, text \in Texts :
      SearchExpected(c) =>
        LET h == handle_elective_partial_name_input(user_data[c], text, Resp(400, NotJson))
        IN  h.msg = "more_precise_name" /\ Reprompted(user_data[c], h)

\* C8 witness: a search has just been rejected and the prompt is armed again
C8_Witness ==
    /\ ev.handler = "handle_elective_partial_name_input"
    /\ ev.msg = "more_precise_name"
    /\ SearchExpected(ev.chat)

\* C9 (as claimed): an empty result list and a 404 answer are both reported as
\* nothing found and leave expecting_elective_name set.
C9_NotFoundIsNoResults ==
    \A c \in Chats, text \in Texts :
      SearchExpected(c) =>
        \A r \in {q \in LessonsResponses : q.status = 404 \/ q = Resp(200, JsonList(<<>>))} :
          LET h == handle_elective_partial_name_input(user_data[c], text, r)
          IN  h.msg = "nothing_found" /\ Reprompted(user_data[c], h)

\* C10 (as claimed): a search that fails with a 5xx answer or a transport failure is
\* answered with the generic try-later reply and leaves expecting_elective_name set.
C10_ServerErrorReprompts ==
    \A c \in Chats, text \in Texts :
      SearchExpected(c) =>
        \A r \in {q \in LessonsResponses : q.status = 0 \/ q.status >= 500} :
          LET h == handle_elective_partial_name_input(user_data[c], text, r)
          IN  h.msg = "api_error" /\ Reprompted(user_data[c], h)

\* C11 (as claimed): when the backend reports the submitted group name as unknown
\* (result 1), expecting_manual_group is still set after manual_group_message_handler
\* returns.
C11_InvalidNameReprompts ==
    (ev.handler = "manual_group_message_handler" /\ ev.msg = "wrong_group_name")
    => Truthy(user_data[ev.chat], EXPECTING_MANUAL_GROUP)

\* the store handle_group_change works on after main.py:150-151
GroupStore(ud, group_code, action) ==
    DictSet(DictSet(ud, TEMP_GROUP_CODE, group_code), TEMP_GROUP_ACTION, action)

\* what handle_group_change does with subgroup list s once the initial update succeeded
SubgroupStep(ud, group_code, action, s) ==
    GroupChangeSubgroupsOn(GroupStore(ud, group_code, action), <<>>, group_code, action,
                           Resp(200, JsonList(s)))

\* how often x occurs in sequence s
Count(s, x) == Cardinality({i \in 1..Len(s) : s[i] = x})

\* the subgroups of list s other than the -1 sentinel
RealSubgroups(s) == {s[i] : i \in 1..Len(s)} \ {-1}

\* C12 (as claimed): after a valid group name the subgroup keyboard is presented
\* exactly when the group has more than one real subgroup besides -1; with at most one
\* the wizard confirms the group at once and shows no keyboard.
C12_KeyboardOnlyForSeveralSubgroups ==
    \A c \in Chats, text \in Texts, action \in {"create", "change"}, s \in SubgroupLists :
      Truthy(user_data[c], EXPECTING_MANUAL_GROUP) =>
        LET h == SubgroupStep(user_data[c], text, action, s)
        IN  IF Cardinality(RealSubgroups(s)) > 1
            THEN h.msg = "choose_subgroup"
            ELSE h.msg = GroupConfirmMsg(action) /\ h.kb = <<>>

\* C13: the subgroup keyboard built for a subgroup list has exactly one all-subgroups
\* button, carrying -1, placed first, and after it one button per list element other
\* than -1 in ascending order, each labelled with its own subgroup number; no button
\* labelled with a number carries or shows -1.
C13_SubgroupKeyboard ==
    \A c \in Chats, text \in Texts, action \in {"create", "change"}, s \in SubgroupLists :
      Truthy(user_data[c], EXPECTING_MANUAL_GROUP) =>
        LET h == SubgroupStep(user_data[c], text, action, s)
            kb == h.kb
        IN  h.msg = "choose_subgroup" =>
              /\ Len(kb) = 1 + Len(s) - Count(s, -1)
              /\ kb[1].n = -1 /\ kb[1].label = <<"all">>
              /\ \A i \in 1..Len(kb) : kb[i].action = "GROUP_SUBGROUP"
              /\ \A i \in 2..Len(kb) :
                   /\ kb[i].n # -1
                   /\ kb[i].label = <<"subgroup", kb[i].n>>
                   /\ Count([j \in 1..Len(kb) |-> kb[j].n], kb[i].n) = Count(s, kb[i].n)
              /\ \A i, j \in 2..Len(kb) : i < j => kb[i].n <= kb[j].n

\* C13 witness: handle_group_change has just rendered a subgroup keyboard
C13_Witness ==
    /\ ev.handler = "manual_group_message_handler"
    /\ ev.msg = "choose_subgroup"
    /\ shown[ev.chat] # {}

\* C14 (as claimed): a run of the group wizard that presents the subgroup keyboard
\* has issued no create_user / change_user_group call when the keyboard appears, and
\* together with the press that follows it issues exactly one such call.
C14_GroupMutatedOnlyAtTheEnd ==
    \A c \in Chats, text \in Texts :
      \A h \in manual_group_message_handler(user_data[c], TRUE, text) :
        h.msg = "choose_subgroup" =>
          /\ NumCalls(h, "write") = 0
          /\ \A subgroup \in Subgroups :
               \A h2 \in handle_group_subgroup_selected(h.ud, subgroup) :
                 NumCalls(h, "write") + NumCalls(h2, "write") = 1

\* the characters of a group name
Chars(text) ==
    CASE text = "bek-121" -> <<"b", "e", "k", "-", "1", "2", "1">>
      [] text = "pi-122" -> <<"p", "i", "-", "1", "2", "2">>
      [] OTHER -> <<>>

\* the Latin letters that have a Cyrillic look-alike, in both cases
LatinLookAlikes ==
    {"A", "B", "E", "K", "M", "H", "O", "P", "C", "T", "Y", "X", "I", "V", "S", "N", "R",
     "a", "b", "e", "k", "m", "h", "o", "p", "c", "t", "y", "x", "i", "v", "s", "n", "r"}

\* C15 (as claimed): no API call issued while a submitted group name is handled
\* carries a group name with a Latin look-alike letter in it.
C15_GroupNameNormalized ==
    \A c \in Chats, text \in Texts :
      \A h \in manual_group_message_handler(user_data[c], TRUE, text) :
        \A i \in 1..Len(h.calls) :
          \A j \in 1..Len(Chars(h.calls[i].group)) :
            Chars(h.calls[i].group)[j] \notin LatinLookAlikes

\* the stores a press of EL_LESSON|lesson_id for a one-type lesson can find: the one
\* the search for that lesson left, and the one main.py:457 is written to leave
SingleTypeStores(ud, text, item) ==
    {handle_elective_partial_name_input(ud, text, Resp(200, JsonList(<<item>>))).ud}
    \cup {DictSet(ud, TEMP_ELECTIVE_LESSONS,
                  [k \in {item.id} |-> [id |-> item.id, title |-> item.title,
                                         types |-> <<item.type>>]])}

\* C16 (as claimed): when the chosen lesson has exactly one type, the EL_LESSON press
\* itself renders the subgroup keyboard of that type (or reports that the type has no
\* streams); no method or type keyboard comes in between.
C16_SingleTypeSkipsTypeChoice ==
    \A c \in Chats, text \in Texts, item \in LessonItems :
      SearchExpected(c) =>
        \A ud \in SingleTypeStores(user_data[c], text, item) :
          \A h \in handle_elective_lesson_selected(ud, item.id) :
            /\ ~h.raised
            /\ h.msg \in {"choose_stream", "no_streams"}
            /\ \A i \in 1..Len(h.kb) : h.kb[i].action = "EL_SUBGROUP"

\* C17 (as claimed): the wizard never enrolls by week/day/time: the EL_MANUAL_TIME
\* step issues no enrollment call.
C17_OnlyBySubgroupEnrollment ==
    ~(/\ ev.handler = "handle_elective_manual_time_selected"
      /\ ev.msg \in ElectiveMutationReplies)

\* the outcomes of every update a chat with store ud can send, one set per update
UpdateOutcomes(ud) ==
    {change_group(ud, p) : p \in BOOLEAN}
    \cup {elective_add_command(ud, p) : p \in BOOLEAN}
    \cup {manual_group_message_handler(ud, p, t) : p \in BOOLEAN, t \in Texts}
    \cup {handle_group_subgroup_selected(ud, sg) : sg \in Subgroups}
    \cup {handle_elective_lesson_selected(ud, l) : l \in LessonIds}
    \cup {handle_elective_method_selected(ud, l, m) : l \in LessonIds, m \in {"subgroup", "manual"}}
    \cup {handle_elective_subgroup_type_selected(ud, l, t) : l \in LessonIds, t \in LessonTypes}
    \cup {handle_elective_subgroup_selected(ud, l, t, sg)
           : l \in LessonIds, t \in LessonTypes, sg \in Subgroups}
    \cup {handle_elective_manual_type_selected(ud, l, t) : l \in LessonIds, t \in LessonTypes}
    \cup {handle_elective_manual_week_selected(ud, l, t, w)
           : l \in LessonIds, t \in LessonTypes, w \in BOOLEAN}
    \cup {handle_elective_manual_day_selected(ud, l, t, w, d)
           : l \in LessonIds, t \in LessonTypes, w \in BOOLEAN, d \in Days}
    \cup {handle_elective_manual_time_selected(ud, l, t, w, d, 1)
           : l \in LessonIds, t \in LessonTypes, w \in BOOLEAN, d \in Days}

\* C18 (as claimed): whenever a chat's store holds a wizard slot, the chat can send an
\* update (the cancel action) that, whatever the backend answers, returns normally and
\* leaves the store without any wizard slot.
C18_CancelAvailable ==
    \A c \in Chats :
      ~NoSlots(user_data[c], WizardKeys) =>
        \E outcomes \in UpdateOutcomes(user_data[c]) :
          \A h \in outcomes : ~h.raised /\ NoSlots(h.ud, WizardKeys)

\* the replies of the error branches that end a wizard run
DeadEndReplies ==
    {"no_lesson_types", "no_streams", "weeks_failed", "days_failed", "times_failed",
     "group_update_failed"}

\* C19 (as claimed): after a step handler left through an error branch the user
\* cannot continue from, the chat's store holds no wizard slot.
C19_ErrorExitClearsSlots ==
    ev.msg \in DeadEndReplies => NoSlots(user_data[ev.chat], WizardKeys)

\* C20 (as claimed): every handler returns normally, whatever the backend answers.
C20_NoUnhandledException ==
    ~ev.raised

\* the result of the initial group update of handle_group_change answered with status
InitialUpdate(action, status) ==
    IF action = "create" THEN create_user(Resp(status, NotJson))
    ELSE change_user_group(Resp(status, NotJson))

\* C33: when the initial update of handle_group_change returns a non-zero result, the
\* handler replies with the message of that result (wrong name for 1, update failed
\* otherwise), removes temp_group_code and temp_group_action, fetches no subgroups
\* and renders no keyboard.
C33_FailedUpdateResets ==
    \A c \in Chats, text \in Texts, action \in {"create", "change"} :
      \A h \in handle_group_change(user_data[c], text, action) :
        LET result == InitialUpdate(action, h.calls[1].status)
        IN  (result.exc = "" /\ result.val # 0) =>
              /\ ~h.raised
              /\ h.msg = IF result.val = 1 THEN "wrong_group_name" ELSE "group_update_failed"
              /\ NoSlots(h.ud, {TEMP_GROUP_CODE, TEMP_GROUP_ACTION})
              /\ Len(h.calls) = 1
              /\ h.kb = <<>>

\* C33 witness: a group name was answered with an error and the slots are gone
C33_Witness ==
    /\ ev.handler = "manual_group_message_handler"
    /\ ev.msg \in {"wrong_group_name", "group_update_failed"}
    /\ NoSlots(user_data[ev.chat], {TEMP_GROUP_CODE, TEMP_GROUP_ACTION})

\* whether the answer r to a subgroup fetch holds a subgroup other than -1
HasRealSubgroup(r) ==
    get_possible_subgroups(r).exc = "" /\ RealSubgroups(r.body.val) # {}

\* C36 (as claimed): pressing the button of a lesson the search returned answers with
\* the method keyboard: by stream and manual when the subgroup fetch of one of the
\* lesson's types holds a subgroup other than -1, manual only otherwise (a failed fetch
\* counts as none).  Checked for lessons of one type.
C36_ByStreamWhenSubgroupsExist ==
    \A c \in Chats, text \in Texts, item \in LessonItems :
      SearchExpected(c) =>
        LET ud == handle_elective_partial_name_input(
                    user_data[c], text, Resp(200, JsonList(<<item>>))).ud
            pressed == handle_elective_lesson_selected(ud, item.id)
        IN  /\ \A h \in pressed : ~h.raised
            /\ {h.kb : h \in pressed}
                 = {MethodKeyboard(item.id, HasRealSubgroup(r)) : r \in SubgroupsResponses}

----------------------------------------------------------------------------
(* The typed client on its own: a client is constructed, then opened, closed, *)
(* used for requests, and the helpers of schedule_api.py and models.py are    *)
(* applied to every input.                                                    *)

ApiInit ==
    /\ user_data = [c \in Chats |-> EmptyStore]
    /\ ev = [chat |-> "c1", handler |-> "start", msg |-> "", raised |-> FALSE]
    /\ shown = [c \in Chats |-> {}]
    /\ elective_view = [c \in Chats |-> Absent]
    /\ \/ client = OwnClient /\ sessions = NoSessions
       \/ client = SuppliedClient /\ sessions = [NoSessions EXCEPT ![0].state = "open"]
    /\ api = NoCall

\* a call on the client or the helpers: its effect on the session, and its result
ApiCall(op, inp, out, after) ==
    /\ client' = after.client
    /\ sessions' = after.sessions
    /\ api' = [op |-> op, inp |-> inp, out |-> out]
    /\ UNCHANGED <<user_data, ev, shown, elective_view>>

Same == [client |-> client, sessions |-> sessions]

\* a session can still be created within the bound
CanCreate == \E i \in 1..MaxSessions : sessions[i].state = "unborn"

ClientOpen == CanCreate /\ ApiCall("open", <<>>, Return(<<>>), open(client, sessions))

ClientClose == ApiCall("close", <<>>, Return(<<>>), close(client, sessions))

\* async with client: __aenter__ and __aexit__
ClientEnter == CanCreate /\ ApiCall("aenter", <<>>, Return(<<>>), open(client, sessions))

ClientExit == ApiCall("aexit", <<>>, Return(<<>>), close(client, sessions))

ClientRequest == \E w \in Wire : ApiCall("request", w, _request(client, sessions, w), Same)

SearchLessons ==
    \E w \in Wire :
      ApiCall("search_elective_lessons", w, search_elective_lessons(client, sessions, w), Same)

RaiseForStatus ==
    \E status \in Statuses, text \in BodyTexts :
      ApiCall("_raise_for_status", [status |-> status, text |-> text],
              _raise_for_status(status, text), Same)

RoundTrip ==
    \E e \in SelectedElectives : ApiCall("round_trip", e, from_dict(to_dict(e)), Same)

\* whoever supplied the session closes it
SupplierClose ==
    /\ ~client.owns_session /\ sessions[0].state = "open"
    /\ ApiCall("supplier_close", <<>>, Return(<<>>),
               [client |-> client, sessions |-> [sessions EXCEPT ![0].state = "closed"]])

ApiNext ==
    \/ ClientOpen
    \/ ClientClose
    \/ ClientEnter
    \/ ClientExit
    \/ ClientRequest
    \/ SearchLessons
    \/ RaiseForStatus
    \/ RoundTrip
    \/ SupplierClose

ApiSpec == ApiInit /\ [][ApiNext]_vars

\* what the status-code contract prescribes for a status and a body text
StatusContract(status, text) ==
    IF 200 <= status /\ status <= 299 THEN ""
    ELSE IF status = 404 THEN "NotFoundError"
    ELSE IF status = 400
    THEN IF text.json = "object" /\ DateKeys \subseteq text.has THEN "OutOfRangeDateError"
         ELSE IF text.marker THEN "TooManyElementsError"
         ELSE "BadRequestError"
    ELSE IF 500 <= status /\ status <= 599 THEN "ServerError"
    ELSE "ScheduleApiError"

\* C21 (as claimed): for every status and body text _raise_for_status returns or
\* raises exactly what the status-code contract prescribes.
C21_StatusContract ==
    api.op = "_raise_for_status" =>
      api.out.exc = StatusContract(api.inp.status, api.inp.text)

\* C22 (as claimed): every error of the taxonomy raised by _raise_for_status has the
\* response's status in status_code and the raw response text in body.
C22_ErrorCarriesStatusAndBody ==
    (api.op = "_raise_for_status" /\ api.out.exc \in TaxonomyKinds) =>
      /\ api.out.val.status_code = api.inp.status
      /\ api.out.val.body.kind = "text"
      /\ api.out.val.body.of = api.inp.text

\* the transport-level failures: no response, or a 2xx response that is not JSON
TransportFailures ==
    {w \in Wire : w.fail # "" \/ (200 <= w.status /\ w.status <= 299 /\ w.text.json = "invalid")}

\* C23 (as claimed): on a client with a live session every transport-level failure
\* of search_elective_lessons is raised, all as one and the same error kind, and that
\* kind is none of the status-code kinds.
C23_OneTransientKind ==
    (client.session # Absent /\ sessions[client.session[1]].state = "open") =>
      LET kinds == {search_elective_lessons(client, sessions, w).exc : w \in TransportFailures}
      IN  /\ "" \notin kinds
          /\ kinds \cap TaxonomyKinds = {}
          /\ Cardinality(kinds) = 1

\* the sessions the client has created so far, and those of them that are open
CreatedSessions == {i \in 1..MaxSessions : sessions[i].state # "unborn"}
LiveSessions == {i \in 1..MaxSessions : sessions[i].state = "open"}

\* C24 (as claimed): a client that owns its session creates at most one session in
\* its lifetime, has at most one live, and closes it at most once.
C24_OneSessionForLife ==
    client.owns_session =>
      /\ Cardinality(CreatedSessions) <= 1
      /\ Cardinality(LiveSessions) <= 1
      /\ \A i \in CreatedSessions : sessions[i].closes <= 1

\* C24 (amended): a client that owns its session has at most one session live at any
\* time, namely the one it holds, and closes each session at most once; a session is
\* created only by open() or async-with entry, and only when the client holds no
\* live session; no request call creates a session.
C24_OneLiveSession ==
    /\ [](client.owns_session =>
            /\ Cardinality(LiveSessions) <= 1
            /\ \A i \in LiveSessions : client.session = <<i>>
            /\ \A i \in CreatedSessions : sessions[i].closes <= 1)
    /\ [][ (CreatedSessions' # CreatedSessions) =>
             (api'.op \in {"open", "aenter"} /\ LiveSessions = {}) ]_vars

\* C24 witness: the client has closed its first session and opened a second one
C24_Witness ==
    /\ client.owns_session
    /\ Cardinality(CreatedSessions) = 2
    /\ Cardinality(LiveSessions) = 1
    /\ api.op \in {"request", "search_elective_lessons"}

\* C25: a client constructed with a session keeps that session, creates none of its
\* own and never closes the supplied one, whatever is called on it.
C25_SuppliedSessionUntouched ==
    ~client.owns_session =>
      /\ client.session = <<0>>
      /\ CreatedSessions = {}
      /\ sessions[0].closes = 0

\* C25 witness: close() was called on a client with a supplied session that is open
C25_Witness ==
    /\ ~client.owns_session
    /\ api.op \in {"close", "aexit"}
    /\ sessions[0].state = "open"

\* C30: for every instance e, from_dict(to_dict(e)) returns e, and to_dict(e) has
\* exactly the keys id, lessonName, lessonType and subgroupNumber.
C30_RoundTrip ==
    api.op = "round_trip" =>
      /\ api.out = Return(api.inp)
      /\ DOMAIN to_dict(api.inp) = {"id", "lessonName", "lessonType", "subgroupNumber"}

\* C30 witness: an instance with a lesson type has gone through to_dict and from_dict
C30_Witness ==
    /\ api.op = "round_trip"
    /\ api.inp.lesson_type # None
    /\ api.out = Return(api.inp)

\* C34 (as claimed): for a 400 response whose body is valid JSON but not an object (a
\* number, null, a boolean or a list) _raise_for_status raises BadRequestError, or
\* TooManyElementsError when the marker is in the body, and nothing else.
C34_NonObjectBodyIsBadRequest ==
    (/\ api.op = "_raise_for_status"
     /\ api.inp.status = 400
     /\ api.inp.text.json \in {"scalar", "list"}) =>
      api.out.exc = IF api.inp.text.marker THEN "TooManyElementsError" ELSE "BadRequestError"

\* C35: a request on a client that owns its session and was never opened fails with
\* the assertion whatever the network would answer; on the opened client it fails or
\* returns as the network does.
C35_RequestNeedsOpen ==
    (api.op = "request" /\ client.owns_session) =>
      /\ client.session = Absent => api.out.exc = "AssertionError"
      /\ (client.session # Absent /\ sessions[client.session[1]].state = "open") =>
           /\ api.out.exc = api.inp.fail
           /\ api.inp.fail = "" =>
                (api.out.val.status = api.inp.status /\ api.out.val.text = api.inp.text)

\* C35 witness: a request was issued on the never-opened client and hit the assertion
C35_Witness ==
    /\ client.owns_session
    /\ client.session = Absent
    /\ api.op = "request"
    /\ api.inp.fail = ""
    /\ api.out.exc = "AssertionError"

----------------------------------------------------------------------------
(* The schedule view, main.py:235-291, ScheduleAPI.py:48-57.  A date is the  *)
(* day of the month it falls on.                                             *)

ScheduleDays == {12, 13}

\* the body of a 400 answer to a date outside the timetable: the keys of the object
OutOfRangeBody == [kind |-> "object", val |-> <<"startDate", "endDate">>]

\* a lesson dict of GET /schedule
ScheduleItem(begin, teacher) == [title |-> "math", beginTime |-> begin, teacher |-> teacher]

ScheduleResponses ==
    {Transport, Resp(200, NotJson), Resp(400, OutOfRangeBody), Resp(200, JsonList(<<>>)),
     Resp(200, JsonList(<<ScheduleItem(2, TRUE), ScheduleItem(1, TRUE)>>)),
     Resp(200, JsonList(<<ScheduleItem(1, FALSE)>>))}

\* Lesson.__init__: teacher is None when the dict has no "teacher"
Lesson(data) ==
    [title |-> data.title, begin_time |-> data.beginTime, has_teacher |-> data.teacher]

\* [Lesson(item) for item in result.json()]: no status check; iterating an object
\* yields its keys, and Lesson("startDate") indexes a string with "title"
get_schedule(resp) ==
    IF resp.status = 0 THEN Raise("TransportError")
    ELSE IF Json(resp).exc # "" THEN Json(resp)
    ELSE IF resp.body.kind = "bool" THEN Raise("TypeError")
    ELSE IF resp.body.kind = "object"
    THEN IF resp.body.val = <<>> THEN Return(<<>>) ELSE Raise("TypeError")
    ELSE Return([i \in 1..Len(resp.body.val) |-> Lesson(resp.body.val[i])])

\* lessons.sort(key=lambda l: l.begin_time)
RECURSIVE InsertLesson(_, _)
InsertLesson(x, ls) ==
    IF ls = <<>> THEN <<x>>
    ELSE IF x.begin_time <= Head(ls).begin_time THEN <<x>> \o ls
    ELSE <<Head(ls)>> \o InsertLesson(x, Tail(ls))

RECURSIVE SortLessons(_)
SortLessons(ls) == IF ls = <<>> THEN <<>> ELSE InsertLesson(Head(ls), SortLessons(Tail(ls)))

\* generate_telegram_message: len(lesson.teacher) of a lesson without teacher
generate_telegram_message(lesson) ==
    IF lesson.has_teacher THEN Return("lesson") ELSE Raise("TypeError")

\* months_array: the month names under the keys "01".."12"
months_array ==
    <<"January", "February", "March", "April", "May", "June", "July", "August",
      "September", "October", "November", "December">>

\* generate_telegram_message_from_list: months_array, keyed "01".."12", is indexed
\* with the day of the month
generate_telegram_message_from_list(lessons, day) ==
    IF day \notin DOMAIN months_array THEN Raise("KeyError")
    ELSE IF \E i \in 1..Len(lessons) : generate_telegram_message(lessons[i]).exc # ""
    THEN Raise("TypeError")
    ELSE Return("schedule")

build_schedule_nav_keyboard(day) ==
    <<Button("SCH_NAV", day, "PREV", 0), Button("SCH_NAV", day, "NEXT", 0)>>

\* r1 answers GET /user/exists, r2 answers GET /schedule
render_schedule(ud, from_callback, day, r1, r2) ==
    LET cs1 == <<Call("user_exists", "read", r1, "", 0)>>
        ex  == user_exists(r1)
        cs2 == Append(cs1, Call("get_schedule", "read", r2, "", 0))
        ls  == get_schedule(r2)
        text == generate_telegram_message_from_list(SortLessons(ls.val), day)
    IN  IF ex.exc # "" THEN Raised(ud, cs1)
        ELSE IF ~ex.val
        THEN IF from_callback THEN Done(ud, cs1, "", <<>>)
             \* "Ви ще не вибрали групу.", then ask_for_group
             ELSE Done(DictSet(ud, EXPECTING_MANUAL_GROUP, TRUE), cs1, "enter_group_code", <<>>)
        ELSE IF ls.exc # "" THEN Raised(ud, cs2)
        ELSE IF text.exc # "" THEN Raised(ud, cs2)
        ELSE Done(ud, cs2, text.val, build_schedule_nav_keyboard(day))

\* /schedule [DD.MM]: given is "none", "valid" or "invalid"
schedule_command(ud, given, day, r1, r2) ==
    IF given = "invalid" THEN Done(ud, <<>>, "bad_date_format", <<>>)
    ELSE render_schedule(ud, FALSE, day, r1, r2)

tomorrow_command(ud, day, r1, r2) == render_schedule(ud, FALSE, day, r1, r2)

----------------------------------------------------------------------------
(* The elective list, main.py:681-883, ScheduleAPI.py:159-207.  Lesson names *)
(* are numbers.  elective_view holds what the main view stores in user_data  *)
(* under "elective_lessons_list" and "elective_lessons_dict": the groups in  *)
(* the order of the list, each with its name, sources and entries.           *)

ELECTIVE_PAGE_SIZE == 9

MaxListed == 10

SourceItem(name, id) == [name |-> name, selectedSourceId |-> id, subGroupNumber |-> 1]

EntryItem(name, id) ==
    [entryName |-> name, selectedEntryId |-> id, type |-> "lecture", weekNumber |-> FALSE,
     dayOfWeek |-> 1, startTime |-> 8]

JsonElectives(sources, entries) ==
    [kind |-> "electives", val |-> [sources |-> sources, entries |-> entries]]

\* n lessons by source, each under its own name
Listing(n) == JsonElectives([i \in 1..n |-> SourceItem(i, i)], <<>>)

ElectiveBodies ==
    {Listing(n) : n \in 0..MaxListed}
    \cup {JsonElectives(<<SourceItem(1, 1), SourceItem(1, 2)>>, <<EntryItem(1, 3), EntryItem(2, 1)>>),
          JsonElectives(<<>>, <<EntryItem(2, 1)>>)}

ListResponses ==
    {Transport, Resp(404, NotJson), Resp(200, NotJson), Resp(200, JsonList(<<>>)),
     Resp(500, JsonObject)}
    \cup {Resp(200, b) : b \in ElectiveBodies}

DeleteResponses == {Transport, Resp(200, NotJson), Resp(404, NotJson), Resp(500, NotJson)}

ElectiveSelectedSource(data) ==
    [name |-> data.name, selected_source_id |-> data.selectedSourceId,
     subgroup_number |-> data.subGroupNumber]

ElectiveSelectedEntry(data) ==
    [selected_entry_id |-> data.selectedEntryId, entry_name |-> data.entryName,
     type |-> data.type, week_number |-> data.weekNumber, day_of_week |-> data.dayOfWeek,
     start_time |-> data.startTime]

\* ElectiveSelectedLessons.__init__: data.get("sources", []), data.get("entries", [])
ElectiveSelectedLessons(body) ==
    IF body.kind = "electives"
    THEN [sources |-> [i \in 1..Len(body.val.sources) |-> ElectiveSelectedSource(body.val.sources[i])],
          entries |-> [i \in 1..Len(body.val.entries) |-> ElectiveSelectedEntry(body.val.entries[i])]]
    ELSE [sources |-> <<>>, entries |-> <<>>]

get_user_elective_lessons(resp) ==
    IF resp.status = 0 THEN Raise("TransportError")
    ELSE IF resp.status = 404 THEN Raise("KeyError")
    ELSE IF Json(resp).exc # "" THEN Json(resp)
    ELSE IF resp.body.kind \in {"list", "bool"} THEN Raise("AttributeError")
    ELSE Return(ElectiveSelectedLessons(resp.body))

delete_user_elective_source(resp) ==
    IF resp.status = 0 THEN Raise("TransportError") ELSE Return(resp.status = 200)

delete_user_elective_entry(resp) ==
    IF resp.status = 0 THEN Raise("TransportError") ELSE Return(resp.status = 200)

\* the handler returned after sending msg (with keyboard kb), leaving the stored view
ViewDone(view, cs, msg, kb) ==
    [view |-> view, calls |-> cs, msg |-> msg, kb |-> kb, raised |-> FALSE]
ViewRaised(view, cs) ==
    [view |-> view, calls |-> cs, msg |-> "", kb |-> <<>>, raised |-> TRUE]

\* the keys of lessons_dict in insertion order: first the names of the sources, then
\* those of the entries, each once
RECURSIVE FirstOccurrences(_)
FirstOccurrences(names) ==
    IF names = <<>> THEN <<>>
    ELSE LET front == FirstOccurrences(SubSeq(names, 1, Len(names) - 1))
             last  == names[Len(names)]
         IN  IF \E i \in 1..Len(front) : front[i] = last THEN front ELSE Append(front, last)

\* lessons_dict and lessons_list of handle_elective_list_main_view
GroupByName(sel) ==
    LET names == FirstOccurrences(
                   [i \in 1..Len(sel.sources) |-> sel.sources[i].name]
                   \o [i \in 1..Len(sel.entries) |-> sel.entries[i].entry_name])
    IN  [i \in 1..Len(names) |->
           [name |-> names[i],
            sources |-> SelectSeq(sel.sources, LAMBDA x : x.name = names[i]),
            entries |-> SelectSeq(sel.entries, LAMBDA x : x.entry_name = names[i])]]

\* the stored groups; user_data.get(..., {}) / .get(..., []) of a chat without them
Groups(view) == IF view = Absent THEN <<>> ELSE view[1]

\* r answers GET /elective
handle_elective_list_main_view(view, r) ==
    LET cs  == <<Call("get_user_elective_lessons", "read", r, "", 0)>>
        sel == get_user_elective_lessons(r)
    IN  IF sel.exc # "" THEN ViewDone(view, cs, "list_fetch_error", <<>>)
        ELSE IF sel.val.sources = <<>> /\ sel.val.entries = <<>>
        THEN ViewDone(view, cs, "no_electives", <<>>)
        ELSE LET groups == GroupByName(sel.val)
             IN  ViewDone(<<groups>>, cs, "elective_list",
                          [i \in 1..Len(groups) |-> Button("EL_LIST_LESSON", i - 1, "", 0)])

\* r0 answers GET /user/exists
elective_list_command(view, private, r0, r) ==
    LET cs == <<Call("user_exists", "read", r0, "", 0)>>
        ex == user_exists(r0)
        h  == handle_elective_list_main_view(view, r)
    IN  IF ~private THEN ViewDone(view, <<>>, "private_only", <<>>)
        ELSE IF ex.exc # "" THEN ViewRaised(view, cs)
        ELSE IF ~ex.val THEN ViewDone(view, cs, "no_group_yet", <<>>)
        ELSE [h EXCEPT !.calls = cs \o @]

handle_elective_list_lesson_view(view, lesson_index) ==
    LET groups == Groups(view)
    IN  IF lesson_index >= Len(groups) THEN ViewDone(view, <<>>, "lesson_not_found", <<>>)
        ELSE LET lesson_data == groups[lesson_index + 1]
             IN  ViewDone(view, <<>>, "lesson_detail",
                   [i \in 1..Len(lesson_data.sources) |->
                      Button("EL_LIST_SOURCE", lesson_data.sources[i].selected_source_id, "", 0)]
                   \o [i \in 1..Len(lesson_data.entries) |->
                      Button("EL_LIST_SOURCE", lesson_data.entries[i].selected_entry_id, "", 0)]
                   \o <<Button("EL_LIST_BACK", 0, "main", 0)>>)

\* the indices of the stored groups that hold a source or an entry with the id
Holding(groups, source_id) ==
    {i \in 1..Len(groups) :
       \/ \E j \in 1..Len(groups[i].sources) : groups[i].sources[j].selected_source_id = source_id
       \/ \E j \in 1..Len(groups[i].entries) : groups[i].entries[j].selected_entry_id = source_id}

handle_elective_list_source_view(view, source_id) ==
    LET groups == Groups(view)
        found  == Holding(groups, source_id)
    IN  IF found = {} THEN ViewDone(view, <<>>, "item_not_found", <<>>)
        ELSE LET idx == CHOOSE i \in found : \A j \in found : i <= j
                 is_source == \E j \in 1..Len(groups[idx].sources) :
                                groups[idx].sources[j].selected_source_id = source_id
             IN  IF is_source
                 THEN ViewDone(view, <<>>, "source_detail",
                               <<Button("EL_DELETE_SOURCE", source_id, "", 0),
                                 Button("EL_LIST_BACK", idx - 1, "lesson", 0)>>)
                 ELSE ViewDone(view, <<>>, "entry_detail",
                               <<Button("EL_DELETE_ENTRY", source_id, "", 0),
                                 Button("EL_LIST_BACK", idx - 1, "lesson", 0)>>)

\* try: ok = delete(...); the main view only when ok.  r1 answers DELETE, r2 GET /elective
DeleteThenRefresh(view, op, deleted, r1, r2) ==
    LET cs == <<Call(op, "mutate", r1, "", 0)>>
        h  == handle_elective_list_main_view(view, r2)
    IN  IF deleted.exc # "" THEN ViewDone(view, cs, "delete_error", <<>>)
        ELSE IF ~deleted.val THEN ViewDone(view, cs, "delete_failed", <<>>)
        ELSE [h EXCEPT !.calls = cs \o @]

handle_elective_delete_source(view, source_id, r1, r2) ==
    DeleteThenRefresh(view, "delete_user_elective_source", delete_user_elective_source(r1), r1, r2)

handle_elective_delete_entry(view, entry_id, r1, r2) ==
    DeleteThenRefresh(view, "delete_user_elective_entry", delete_user_elective_entry(r1), r1, r2)

----------------------------------------------------------------------------
(* The views on their own: the schedule commands and the elective list.      *)

\* a list handler ran for an update of chat c with outcome h
Viewed(c, handler, h) ==
    /\ elective_view' = [elective_view EXCEPT ![c] = h.view]
    /\ ev' = [chat |-> c, handler |-> handler, msg |-> h.msg, raised |-> h.raised]
    /\ UNCHANGED <<user_data, shown, client, sessions, api>>

ScheduleCommand(c) ==
    \E given \in {"none", "valid", "invalid"}, day \in ScheduleDays,
       r1 \in ExistsResponses, r2 \in ScheduleResponses :
      Handled(c, "schedule_command", schedule_command(user_data[c], given, day, r1, r2))

TomorrowCommand(c) ==
    \E day \in ScheduleDays, r1 \in ExistsResponses, r2 \in ScheduleResponses :
      Handled(c, "tomorrow_command", tomorrow_command(user_data[c], day, r1, r2))

\* callback_query_router, SCH_NAV|<date>|PREV or NEXT
PressScheduleNav(c) ==
    \E day \in ScheduleDays, r1 \in ExistsResponses, r2 \in ScheduleResponses :
      Handled(c, "render_schedule", render_schedule(user_data[c], TRUE, day, r1, r2))

ElectiveListCommand(c) ==
    \E private \in BOOLEAN, r0 \in ExistsResponses, r \in ListResponses :
      Viewed(c, "elective_list_command", elective_list_command(elective_view[c], private, r0, r))

\* EL_LIST_MAIN
PressListMain(c) ==
    \E r \in ListResponses :
      Viewed(c, "handle_elective_list_main_view", handle_elective_list_main_view(elective_view[c], r))

\* EL_LIST_LESSON|<lessonIndex>
PressListLesson(c) ==
    \E lesson_index \in 0..MaxListed :
      Viewed(c, "handle_elective_list_lesson_view",
             handle_elective_list_lesson_view(elective_view[c], lesson_index))

\* EL_LIST_SOURCE|<sourceId>
PressListSource(c) ==
    \E source_id \in 1..MaxListed :
      Viewed(c, "handle_elective_list_source_view",
             handle_elective_list_source_view(elective_view[c], source_id))

\* EL_DELETE_SOURCE|<sourceId>
PressDeleteSource(c) ==
    \E source_id \in 1..MaxListed, r1 \in DeleteResponses, r2 \in ListResponses :
      Viewed(c, "handle_elective_delete_source",
             handle_elective_delete_source(elective_view[c], source_id, r1, r2))

\* EL_DELETE_ENTRY|<entryId>
PressDeleteEntry(c) ==
    \E entry_id \in 1..MaxListed, r1 \in DeleteResponses, r2 \in ListResponses :
      Viewed(c, "handle_elective_delete_entry",
             handle_elective_delete_entry(elective_view[c], entry_id, r1, r2))

\* EL_LIST_BACK|main and EL_LIST_BACK|lesson_<lessonIndex>
PressListBack(c) ==
    \/ \E r \in ListResponses :
         Viewed(c, "handle_elective_list_main_view",
                handle_elective_list_main_view(elective_view[c], r))
    \/ \E lesson_index \in 0..MaxListed :
         Viewed(c, "handle_elective_list_lesson_view",
                handle_elective_list_lesson_view(elective_view[c], lesson_index))

ViewNext ==
    \/ \E c \in Chats : ScheduleCommand(c)
    \/ \E c \in Chats : TomorrowCommand(c)
    \/ \E c \in Chats : PressScheduleNav(c)
    \/ \E c \in Chats : ElectiveListCommand(c)
    \/ \E c \in Chats : PressListMain(c)
    \/ \E c \in Chats : PressListLesson(c)
    \/ \E c \in Chats : PressListSource(c)
    \/ \E c \in Chats : PressDeleteSource(c)
    \/ \E c \in Chats : PressDeleteEntry(c)
    \/ \E c \in Chats : PressListBack(c)
    \/ Restart

ViewSpec == Init /\ [][ViewNext]_vars

\* the calls of outcome h to the API helper op
CallsTo(h, op) == {i \in 1..Len(h.calls) : h.calls[i].op = op}

\* C26 (as claimed): when the backend answers the schedule request with the
\* out-of-range payload, the schedule command returns normally after a message that
\* states both bounds, and has issued exactly one schedule request.
C26_OutOfRangeReported ==
    \A c \in Chats, given \in {"none", "valid"}, day \in ScheduleDays :
      LET h == schedule_command(user_data[c], given, day,
                                Resp(200, JsonBool(TRUE)), Resp(400, OutOfRangeBody))
      IN  /\ ~h.raised
          /\ h.msg = "out_of_range_bounds"
          /\ Cardinality(CallsTo(h, "get_schedule")) = 1

\* the pages the list handlers can render for a fetched list: the main view takes no
\* page index and renders the list as one message
ListPages(h) == <<h.kb>>

\* the item rows of a page, and its buttons to the previous or next page
ItemRows(kb) == {i \in 1..Len(kb) : kb[i].action = "EL_LIST_LESSON"}
PagerButtons(kb, dir) == {i \in 1..Len(kb) : kb[i].action = "EL_LIST_PAGE" /\ kb[i].arg = dir}

\* C27 (as claimed): a list of n = 9*k + r items is rendered in k + (1 if r > 0 else 0)
\* pages, every page shows at most 9 item rows, page 0 has no Prev button and the
\* last page has no Next button.
C27_PagesOfNine ==
    \A c \in Chats, r \in ListResponses :
      LET h == handle_elective_list_main_view(elective_view[c], r)
      IN  h.msg = "elective_list" =>
            LET pages == ListPages(h)
                n     == Len(Groups(h.view))
            IN  /\ Len(pages) = (n + ELECTIVE_PAGE_SIZE - 1) \div ELECTIVE_PAGE_SIZE
                /\ \A p \in 1..Len(pages) : Cardinality(ItemRows(pages[p])) <= ELECTIVE_PAGE_SIZE
                /\ PagerButtons(pages[1], "PREV") = {}
                /\ PagerButtons(pages[Len(pages)], "NEXT") = {}

\* C28 (as claimed): after the delete request of handle_elective_delete_source and
\* handle_elective_delete_entry the list is fetched again and rendered, whether the
\* delete succeeded, was rejected or raised.
C28_DeleteAlwaysRefetches ==
    \A c \in Chats, id \in 1..MaxListed, r1 \in DeleteResponses, r2 \in ListResponses :
      \A h \in {handle_elective_delete_source(elective_view[c], id, r1, r2),
                 handle_elective_delete_entry(elective_view[c], id, r1, r2)} :
        /\ h.calls[1].kind = "mutate"
        /\ CallsTo(h, "get_user_elective_lessons") = {2}
        /\ h.msg = handle_elective_list_main_view(elective_view[c], r2).msg

\* C29 (as claimed): the detail view fetches the elective list from the backend,
\* does not raise, and shows the not-found message when the chat has no stored list.
C29_DetailRefetches ==
    \A c \in Chats, source_id \in 1..MaxListed :
      LET h == handle_elective_list_source_view(elective_view[c], source_id)
      IN  /\ CallsTo(h, "get_user_elective_lessons") # {}
          /\ ~h.raised
          /\ elective_view[c] = Absent => h.msg = "item_not_found"

\* the detail view a button of the lesson view opens
DetailOf(view, button) == handle_elective_list_source_view(view, button.id)

\* C37 (as claimed): in the lesson view of every stored list, the button of a source
\* opens the detail of a source and the button of an entry the detail of an entry,
\* each with the delete button of its kind for that id and the way back to the lesson
\* the button was shown under.
C37_DetailShowsPressedItem ==
    \A c \in Chats, lesson_index \in 0..MaxListed :
      lesson_index < Len(Groups(elective_view[c])) =>
        LET h == handle_elective_list_lesson_view(elective_view[c], lesson_index)
            sources == Groups(elective_view[c])[lesson_index + 1].sources
        IN  \A i \in 1..Len(h.kb) :
              h.kb[i].action = "EL_LIST_SOURCE" =>
                LET d == DetailOf(elective_view[c], h.kb[i])
                IN  /\ d.msg = IF i <= Len(sources) THEN "source_detail" ELSE "entry_detail"
                    /\ d.kb[1] = Button(IF i <= Len(sources) THEN "EL_DELETE_SOURCE"
                                        ELSE "EL_DELETE_ENTRY", h.kb[i].id, "", 0)
                    /\ d.kb[2] = Button("EL_LIST_BACK", lesson_index, "lesson", 0)

----------------------------------------------------------------------------
(* Dates: the week number of main.py:69-74 and the header line of            *)
(* LessonMessageMapper.py:33-34, applied to every date of a few years.        *)

MaxYears == 3

Years == 2023..(2022 + MaxYears)

IsLeap(y) == (y % 4 = 0 /\ y % 100 # 0) \/ y % 400 = 0

DaysInMonth(y, m) ==
    IF m = 2 THEN (IF IsLeap(y) THEN 29 ELSE 28)
    ELSE IF m \in {4, 6, 9, 11} THEN 30 ELSE 31

DatesOf(ys) ==
    {d \in [year : ys, month : 1..12, day : 1..31] : d.day <= DaysInMonth(d.year, d.month)}

Dates == DatesOf(Years)

RECURSIVE DaysBeforeYear(_)
DaysBeforeYear(y) ==
    IF y <= 2023 THEN 0
    ELSE DaysBeforeYear(y - 1) + (IF IsLeap(y - 1) THEN 366 ELSE 365)

RECURSIVE DaysBeforeMonth(_, _)
DaysBeforeMonth(y, m) ==
    IF m = 1 THEN 0 ELSE DaysBeforeMonth(y, m - 1) + DaysInMonth(y, m - 1)

\* the day number of a date, so that (a - b).days is Ordinal(a) - Ordinal(b)
Ordinal(d) == DaysBeforeYear(d.year) + DaysBeforeMonth(d.year, d.month) + d.day

\* d + timedelta(days=n)
AddDays(d, n) ==
    CHOOSE e \in DatesOf(Years \cup {2023 + MaxYears}) : Ordinal(e) = Ordinal(d) + n

week_parity(reference_year, check_date) ==
    LET sept1 == [year |-> reference_year, month |-> 9, day |-> 1]
        weeks == (Ordinal(check_date) - Ordinal(sept1)) \div 7
    IN  IF weeks % 2 = 0 THEN 1 ELSE 2

\* the header of generate_telegram_message_from_list for a day without lessons:
\* date.strftime("%d") and months_array[date.strftime("%d")]
ScheduleHeader(date) ==
    IF generate_telegram_message_from_list(<<>>, date.day).exc # ""
    THEN generate_telegram_message_from_list(<<>>, date.day)
    ELSE Return([day |-> date.day, month |-> months_array[date.day]])

\* a function was applied to inp and gave out
Applied(op, inp, out) ==
    /\ api' = [op |-> op, inp |-> inp, out |-> out]
    /\ UNCHANGED <<user_data, ev, shown, elective_view, client, sessions>>

\* render_schedule and display_week: week_parity(d.year, d)
WeekOf == \E d \in Dates : Applied("week_parity", d, Return(week_parity(d.year, d)))

HeaderOf == \E d \in Dates : Applied("generate_telegram_message_from_list", d, ScheduleHeader(d))

DateNext == WeekOf \/ HeaderOf

DateSpec == Init /\ [][DateNext]_vars

\* C39 (as claimed): the week number of every date d is 1 or 2 and differs from the
\* week number of d + 7, each taken as render_schedule takes it, week_parity(d.year, d).
C39_WeekAlternates ==
    api.op = "week_parity" =>
      /\ api.out.val \in {1, 2}
      /\ api.out.val # week_parity(AddDays(api.inp, 7).year, AddDays(api.inp, 7))

\* C40 (as claimed): for every date generate_telegram_message_from_list returns
\* without raising and its header names the month of the date.
C40_HeaderNamesTheMonth ==
    api.op = "generate_telegram_message_from_list" =>
      /\ api.out.exc = ""
      /\ api.out.val.month = months_array[api.inp.month]

----------------------------------------------------------------------------
(* The alert job, main.py:899-918, ScheduleAPI.py:111-115, UserAlert.py.      *)
(* api holds the job while it runs: the fetched batch, the position of the   *)
(* loop and the deliveries attempted so far.                                  *)

MaxBatch == 3

\* UserAlertType: NONE = 0, GROUP_REMOVED = 1, SOURCE_REMOVED = 2, ENTRY_REMOVED = 3, NEWS = 4
UserAlertType == 0..4

\* the alert dicts of GET /UserAlerts: a type number, and whether options holds the
\* keys the message of that type reads
AlertItems ==
    [alertType : 0..5, options : {"complete"}] \cup [alertType : {4}, options : {"empty"}]

AlertResponses ==
    {Transport, Resp(200, NotJson)}
    \cup {Resp(200, JsonList(b)) : b \in SeqsUpTo(AlertItems, MaxBatch)}

\* UserAlert.__init__: UserAlertType(data["alertType"]) raises ValueError for a number
\* that is no member
UserAlert(data) == [alert_type |-> data.alertType, options |-> data.options]

get_user_alerts(resp) ==
    IF resp.status = 0 THEN Raise("TransportError")
    ELSE IF Json(resp).exc # "" THEN Json(resp)
    ELSE IF \E i \in 1..Len(resp.body.val) : resp.body.val[i].alertType \notin UserAlertType
    THEN Raise("ValueError")
    ELSE Return([i \in 1..Len(resp.body.val) |-> UserAlert(resp.body.val[i])])

\* the job after the fetch: get_user_alerts raised, or the loop starts
alert_users(resp) ==
    LET fetched == get_user_alerts(resp)
    IN  [exc |-> fetched.exc, batch |-> fetched.val, next |-> 1, attempts |-> <<>>,
         done |-> fetched.exc # "" \/ fetched.val = <<>>]

\* the outcome of the match statement for the alert: no branch for NONE, an exception
\* while the message is built, or the outcome of send_message
Delivery(alert, sent) ==
    IF alert.alert_type = 0 THEN "skipped"
    ELSE IF alert.options # "complete" THEN "KeyError"
    ELSE IF sent THEN "sent" ELSE "send_failed"

\* one iteration of the loop without the try: an exception leaves the job
alert_step_no_try(job, sent) ==
    LET outcome == Delivery(job.batch[job.next], sent)
        tried == IF outcome = "skipped" THEN job.attempts
                 ELSE Append(job.attempts, [alert |-> job.next, outcome |-> outcome])
    IN  IF outcome \in {"KeyError", "send_failed"}
        THEN [job EXCEPT !.attempts = tried, !.exc = outcome, !.done = TRUE]
        ELSE [job EXCEPT !.attempts = tried, !.next = @ + 1,
                         !.done = job.next + 1 > Len(job.batch)]

\* one iteration of the loop: try, match, except: pass
alert_step(job, sent) ==
    LET outcome == Delivery(job.batch[job.next], sent)
        tried == IF outcome = "skipped" THEN job.attempts
                 ELSE Append(job.attempts, [alert |-> job.next, outcome |-> outcome])
    IN  [job EXCEPT !.attempts = tried, !.next = @ + 1,
                    !.done = job.next + 1 > Len(job.batch)]

\* job_queue.run_repeating starts the job
AlertFetch ==
    /\ api.op = "alert_users" => api.out.done
    /\ \E r \in AlertResponses : Applied("alert_users", r, alert_users(r))

AlertStep ==
    /\ api.op = "alert_users"
    /\ ~api.out.done
    /\ \E sent \in BOOLEAN : Applied("alert_users", api.inp, alert_step(api.out, sent))

AlertNext == AlertFetch \/ AlertStep

AlertSpec == Init /\ [][AlertNext]_vars

\* the alerts among the first n of the batch that have a delivered type, in batch order
RECURSIVE Deliverable(_, _)
Deliverable(batch, n) ==
    IF n = 0 THEN <<>>
    ELSE IF batch[n].alert_type \in 1..4 THEN Append(Deliverable(batch, n - 1), n)
    ELSE Deliverable(batch, n - 1)

\* C38: over a fetched batch the job has attempted, in batch order, exactly the alerts
\* of a delivered type it has passed, whatever became of the earlier attempts; every
\* step moves to the next alert, and the job is done when it has passed the last one.
C38_EveryAlertAttempted ==
    /\ [](api.op = "alert_users" /\ api.out.exc = "" =>
            /\ api.out.next <= Len(api.out.batch) + 1
            /\ api.out.done <=> api.out.next = Len(api.out.batch) + 1
            /\ [i \in 1..Len(api.out.attempts) |-> api.out.attempts[i].alert]
                 = Deliverable(api.out.batch, api.out.next - 1))
    /\ [][(api.op = "alert_users" /\ ~api.out.done) =>
            (api'.out.batch = api.out.batch /\ api'.out.next = api.out.next + 1)]_vars

\* C38 witness: the job is done, an attempt failed and a later alert was sent
C38_Witness ==
    /\ api.op = "alert_users"
    /\ api.out.done
    /\ \E i, j \in 1..Len(api.out.attempts) :
         /\ i < j
         /\ api.out.attempts[i].outcome \in {"send_failed", "KeyError"}
         /\ api.out.attempts[j].outcome = "sent"

----------------------------------------------------------------------------
(* Updates of several chats, main.py:950-985.  context.user_data is the      *)
(* store of the user who sent the update: a private chat has the id of its   *)
(* user, and in a group chat every user can send commands and texts.         *)

Users == {"c1", "c2"}
GroupChats == {"g1"}
ChatIds == Users \cup GroupChats

\* the users who can send an update in the chat
Senders(chat) == IF chat \in Users THEN {chat} ELSE Users

\* is_private, main.py:66-67
is_private(chat) == chat \in Users

ChatInit ==
    /\ user_data = [u \in Users |-> EmptyStore]
    /\ ev = [chat |-> "c1", handler |-> "start", msg |-> "", raised |-> FALSE]
    /\ shown = [c \in Chats |-> {}]
    /\ elective_view = [c \in Chats |-> Absent]
    /\ client = OwnClient
    /\ sessions = NoSessions
    /\ api = NoCall

\* handler ran for an update user u sent in chat with outcome h
HandledIn(chat, u, handler, h) ==
    /\ user_data' = [user_data EXCEPT ![u] = h.ud]
    /\ ev' = [chat |-> chat, handler |-> handler, msg |-> h.msg, raised |-> h.raised]
    /\ UNCHANGED <<shown, elective_view, client, sessions, api>>

\* /change_group
ChangeGroupIn(chat, u) ==
    \E h \in change_group(user_data[u], is_private(chat)) : HandledIn(chat, u, "change_group", h)

\* a text message
TextMessageIn(chat, u) ==
    \E text \in Texts :
      \E h \in manual_group_message_handler(user_data[u], is_private(chat), text) :
        HandledIn(chat, u, "manual_group_message_handler", h)

\* /schedule [DD.MM]
ScheduleCommandIn(chat, u) ==
    \E given \in {"none", "valid", "invalid"}, day \in ScheduleDays,
       r1 \in ExistsResponses, r2 \in ScheduleResponses :
      HandledIn(chat, u, "schedule_command", schedule_command(user_data[u], given, day, r1, r2))

\* /tomorrow
TomorrowCommandIn(chat, u) ==
    \E day \in ScheduleDays, r1 \in ExistsResponses, r2 \in ScheduleResponses :
      HandledIn(chat, u, "tomorrow_command", tomorrow_command(user_data[u], day, r1, r2))

\* SCH_NAV|<date>|PREV or NEXT
PressScheduleNavIn(chat, u) ==
    \E day \in ScheduleDays, r1 \in ExistsResponses, r2 \in ScheduleResponses :
      HandledIn(chat, u, "render_schedule", render_schedule(user_data[u], TRUE, day, r1, r2))

ChatNext ==
    \/ \E chat \in ChatIds : \E u \in Senders(chat) : ChangeGroupIn(chat, u)
    \/ \E chat \in ChatIds : \E u \in Senders(chat) : TextMessageIn(chat, u)
    \/ \E chat \in ChatIds : \E u \in Senders(chat) : ScheduleCommandIn(chat, u)
    \/ \E chat \in ChatIds : \E u \in Senders(chat) : TomorrowCommandIn(chat, u)
    \/ \E chat \in ChatIds : \E u \in Senders(chat) : PressScheduleNavIn(chat, u)

ChatSpec == ChatInit /\ [][ChatNext]_vars

\* C31: handling an update of one chat leaves the slots that the updates of every other
\* private chat read unchanged.
C31_OtherChatsUntouched ==
    [][\A b \in Users \ {ev'.chat} : user_data'[b] = user_data[b]]_vars

----------------------------------------------------------------------------
(* The dispatcher, main.py:950-985.  Updates wait in the update queue in     *)
(* arrival order; a handler is a task that reads the store of its user when  *)
(* it starts, awaits its API calls and writes when it finishes.  api holds   *)
(* the queue, the running tasks and the updates handled so far.              *)

MaxUpdates == 3

UpdateKinds == {"change_group", "text"}

\* the outcomes of the handler of the update on the store ud
Handle(update, ud) ==
    IF update.kind = "change_group" THEN change_group(ud, is_private(update.chat))
    ELSE manual_group_message_handler(ud, is_private(update.chat), update.text)

\* the application processes updates concurrently
CanStart_concurrent(tasks) == TRUE

\* Application.builder().token(token).build(): no concurrent_updates, and every handler
\* is registered blocking, so the next update is taken when no handler is running
CanStart(tasks) == tasks = {}

\* what a handler that saw the store seen and came to h writes into the store now
WriteBack(now, seen, h) == [k \in DOMAIN now |-> IF h.ud[k] # seen[k] THEN h.ud[k] ELSE now[k]]

Dispatcher(queue, tasks, arrived, handled) ==
    [op |-> "process_update", inp |-> queue,
     out |-> [tasks |-> tasks, arrived |-> arrived, handled |-> handled]]

DispatchInit ==
    /\ user_data = [u \in Users |-> EmptyStore]
    /\ ev = [chat |-> "c1", handler |-> "start", msg |-> "", raised |-> FALSE]
    /\ shown = [c \in Chats |-> {}]
    /\ elective_view = [c \in Chats |-> Absent]
    /\ client = OwnClient
    /\ sessions = NoSessions
    /\ api = Dispatcher(<<>>, {}, 0, <<>>)

\* an update arrives from the polling loop
Arrive ==
    /\ api.out.arrived < MaxUpdates
    /\ \E chat \in Users, kind \in UpdateKinds, text \in Texts :
         /\ kind = "change_group" => text = "bek-121"
         /\ api' = Dispatcher(
                Append(api.inp, [n |-> api.out.arrived + 1, chat |-> chat, kind |-> kind,
                                 text |-> text,
                                 waited |-> \E t \in api.out.tasks : t.update.chat = chat]),
                api.out.tasks, api.out.arrived + 1, api.out.handled)
    /\ UNCHANGED <<user_data, ev, shown, elective_view, client, sessions>>

\* the handler of the first update of the queue starts and reads the store
StartHandler ==
    /\ api.inp # <<>>
    /\ CanStart(api.out.tasks)
    /\ api' = Dispatcher(Tail(api.inp),
                          api.out.tasks \cup {[update |-> Head(api.inp),
                                               seen |-> user_data[Head(api.inp).chat]]},
                          api.out.arrived, api.out.handled)
    /\ UNCHANGED <<user_data, ev, shown, elective_view, client, sessions>>

\* a running handler gets the answers of its API calls, writes the store and returns
FinishHandler ==
    \E t \in api.out.tasks :
      \E h \in Handle(t.update, t.seen) :
        /\ user_data' = [user_data EXCEPT
                           ![t.update.chat] = WriteBack(user_data[t.update.chat], t.seen, h)]
        /\ ev' = [chat |-> t.update.chat, handler |-> t.update.kind, msg |-> h.msg,
                  raised |-> h.raised]
        /\ api' = Dispatcher(api.inp, api.out.tasks \ {t}, api.out.arrived,
                             Append(api.out.handled,
                                    [n |-> t.update.n, chat |-> t.update.chat,
                                     waited |-> t.update.waited,
                                     wrote |-> h.ud # t.seen,
                                     alone |-> user_data[t.update.chat] = t.seen]))
        /\ UNCHANGED <<shown, elective_view, client, sessions>>

DispatchNext == Arrive \/ StartHandler \/ FinishHandler

DispatchSpec == DispatchInit /\ [][DispatchNext]_vars

\* C32: at most one handler runs for a chat; the updates of a chat are handled in the
\* order they arrived; and between the start of a handler and its return nothing else
\* wrote the store of its chat.
C32_OneAtATimeInOrder ==
    api.op = "process_update" =>
      /\ \A t1, t2 \in api.out.tasks : t1.update.chat = t2.update.chat => t1 = t2
      /\ \A t \in api.out.tasks : user_data[t.update.chat] = t.seen
      /\ \A i, j \in 1..Len(api.out.handled) :
           (i < j /\ api.out.handled[i].chat = api.out.handled[j].chat) =>
             api.out.handled[i].n < api.out.handled[j].n
      /\ \A i \in 1..Len(api.out.handled) : api.out.handled[i].alone

\* C32 witness: an update arrived while a handler of its chat was running, that handler
\* wrote the store, and the update was handled after it
C32_Witness ==
    /\ api.op = "process_update"
    /\ \E i, j \in 1..Len(api.out.handled) :
         /\ i < j
         /\ api.out.handled[i].chat = api.out.handled[j].chat
         /\ api.out.handled[i].wrote
         /\ api.out.handled[j].waited
         /\ api.out.handled[j].wrote

====
